---- MODULE Spec2Model ----
(***************************************************************************)
(* A model of the rustroke editor core (src/src/lib.rs, src/src/graph.rs). *)
(*                                                                         *)
(* Coordinates are integers.  On the integer grid used here every f32      *)
(* operation of the source is exact, every intersection falls on a grid    *)
(* point, and every tolerance of the source (1e-3, 1e-4, 1e-6) is smaller  *)
(* than the smallest gap between two distinct values that are compared, so *)
(* the float comparisons are modelled by exact integer / rational          *)
(* comparisons.  Node, segment and half-edge ids are 0-based as in the     *)
(* source; At(s, i) reads a vector at a 0-based index.                     *)
(*                                                                         *)
(* The release build is modelled: the debug_assert! checks of              *)
(* debug_checks.rs are no-ops.                                             *)
(***************************************************************************)
EXTENDS Integers, Sequences, FiniteSets, TLC

VARIABLES
    lines,             \* Editor.lines
    fills,             \* Editor.fills
    history,           \* Editor.history
    fill_graph,        \* Editor.fill_graph
    node_degree,       \* Editor.node_degree
    allow_node,        \* Editor.allow_node
    effective_degree,  \* Editor.effective_degree
    graph_store,       \* Editor.graph_store / a stand-alone GraphStore
    trace,             \* the locals of a running trace_face_side call
    last_op,           \* the operation that produced this state
    pre                \* the editor state before the last recorded mutation

vars == << lines, fills, history, fill_graph, node_degree, allow_node,
           effective_degree, graph_store, trace, last_op, pre >>

(***************************************************************************)
(* Vector helpers                                                          *)
(***************************************************************************)
At(s, i) == s[i + 1]

SetAt(s, i, v) == [s EXCEPT ![i + 1] = v]

Ids(s) == 0 .. (Len(s) - 1)

Abs(v) == IF v < 0 THEN -v ELSE v

Pt(x, y) == [x |-> x, y |-> y]

(***************************************************************************)
(* graph.rs : SnapKey                                                      *)
(***************************************************************************)
SNAP_EPSILON == 2

\* (v / SNAP_EPSILON + 0.5) as i32 for v >= 0, (v / SNAP_EPSILON - 0.5) as i32
\* otherwise; the cast truncates toward zero.
SnapCoord(v) ==
    IF v >= 0 THEN (2 * v + SNAP_EPSILON) \div (2 * SNAP_EPSILON)
    ELSE -((2 * (-v) + SNAP_EPSILON) \div (2 * SNAP_EPSILON))

SnapKeyFromPoint(x, y) == << SnapCoord(x), SnapCoord(y) >>

(***************************************************************************)
(* graph.rs : DSU                                                          *)
(***************************************************************************)
DsuNew == [parent |-> << >>, size |-> << >>, odd_count |-> << >>]

DsuMakeSet(d) ==
    [parent    |-> Append(d.parent, Len(d.parent)),
     size      |-> Append(d.size, 1),
     odd_count |-> Append(d.odd_count, 0)]

RECURSIVE DsuRoot(_, _)
DsuRoot(parent, x) ==
    IF At(parent, x) = x THEN x ELSE DsuRoot(parent, At(parent, x))

RECURSIVE DsuCompress(_, _, _)
DsuCompress(parent, x, root) ==
    IF x = root THEN parent
    ELSE DsuCompress(SetAt(parent, x, root), At(parent, x), root)

\* find(x): the root, and the store after path compression
DsuFindRoot(d, x) ==
    IF x >= Len(d.parent) THEN x ELSE DsuRoot(d.parent, x)

DsuFind(d, x) ==
    IF x >= Len(d.parent) THEN d
    ELSE [d EXCEPT !.parent = DsuCompress(d.parent, x, DsuRoot(d.parent, x))]

\* the part of union after the two finds: d2 is the store they left, rx and
\* ry the roots they returned
DsuLinkKeepOddCount(d2, rx, ry) ==
    LET small == IF At(d2.size, rx) < At(d2.size, ry) THEN rx ELSE ry
        large == IF At(d2.size, rx) < At(d2.size, ry) THEN ry ELSE rx
    IN  IF rx = ry THEN d2
        ELSE [d2 EXCEPT !.parent = SetAt(d2.parent, small, large),
                        !.size = SetAt(d2.size, large, At(d2.size, large) + At(d2.size, small))]

\* a link that hangs the smaller root under the larger and leaves size alone
DsuLinkKeepSize(d2, rx, ry) ==
    LET small == IF At(d2.size, rx) < At(d2.size, ry) THEN rx ELSE ry
        large == IF At(d2.size, rx) < At(d2.size, ry) THEN ry ELSE rx
    IN  IF rx = ry THEN d2
        ELSE [d2 EXCEPT !.parent = SetAt(d2.parent, small, large),
                        !.odd_count = SetAt(d2.odd_count, large,
                                            At(d2.odd_count, large) + At(d2.odd_count, small))]

DsuLink(d2, rx, ry) ==
    LET small == IF At(d2.size, rx) < At(d2.size, ry) THEN rx ELSE ry
        large == IF At(d2.size, rx) < At(d2.size, ry) THEN ry ELSE rx
    IN  IF rx = ry THEN d2
        ELSE [parent    |-> SetAt(d2.parent, small, large),
              size      |-> SetAt(d2.size, large, At(d2.size, large) + At(d2.size, small)),
              odd_count |-> SetAt(d2.odd_count, large,
                                  At(d2.odd_count, large) + At(d2.odd_count, small))]

DsuUnion(d, x, y) ==
    DsuLink(DsuFind(DsuFind(d, x), y), DsuFindRoot(d, x), DsuFindRoot(DsuFind(d, x), y))

\* odd_count[root] += 1 and the guarded -= 1, on the store find left
OddCountUp(d1, root) ==
    [d1 EXCEPT !.odd_count = SetAt(d1.odd_count, root, At(d1.odd_count, root) + 1)]

OddCountDown(d1, root) ==
    IF At(d1.odd_count, root) > 0
    THEN [d1 EXCEPT !.odd_count = SetAt(d1.odd_count, root, At(d1.odd_count, root) - 1)]
    ELSE d1

DsuIncrementOddCount(d, x) == OddCountUp(DsuFind(d, x), DsuFindRoot(d, x))

DsuDecrementOddCount(d, x) == OddCountDown(DsuFind(d, x), DsuFindRoot(d, x))

(***************************************************************************)
(* graph.rs : GraphStore                                                   *)
(***************************************************************************)
GraphStoreNew == [nodes |-> << >>, edges |-> << >>, dsu |-> DsuNew]

GraphStoreClear(gs) == GraphStoreNew

\* node_map.get(&key): the id of the node created for the key, or -1
NodeMapGet(gs, key) ==
    IF \E i \in Ids(gs.nodes) : At(gs.nodes, i).key = key
    THEN CHOOSE i \in Ids(gs.nodes) : At(gs.nodes, i).key = key
    ELSE -1

GetOrCreateNodeId(gs, x, y) ==
    IF NodeMapGet(gs, SnapKeyFromPoint(x, y)) >= 0
    THEN NodeMapGet(gs, SnapKeyFromPoint(x, y))
    ELSE Len(gs.nodes)

GetOrCreateNode(gs, x, y) ==
    IF NodeMapGet(gs, SnapKeyFromPoint(x, y)) >= 0 THEN gs
    ELSE [gs EXCEPT !.nodes = Append(gs.nodes,
                          [key |-> SnapKeyFromPoint(x, y), x |-> x, y |-> y, degree |-> 0]),
                    !.dsu = DsuMakeSet(gs.dsu)]

\* one iteration of the loop over [node_a, node_b] in add_segment
BumpDegree(gs, node_id) ==
    LET old_parity == At(gs.nodes, node_id).degree % 2
        nodes1 == SetAt(gs.nodes, node_id,
                        [At(gs.nodes, node_id) EXCEPT !.degree = @ + 1])
        new_parity == At(nodes1, node_id).degree % 2
    IN  [gs EXCEPT !.nodes = nodes1,
                   !.dsu = IF old_parity = 0 /\ new_parity = 1
                           THEN DsuIncrementOddCount(gs.dsu, node_id)
                           ELSE IF old_parity = 1 /\ new_parity = 0
                           THEN DsuDecrementOddCount(gs.dsu, node_id)
                           ELSE gs.dsu]

\* add_segment once both nodes exist: g2 is the store holding them
AddSegmentBetween(g2, node_a, node_b, ax, ay, bx, by, line_idx) ==
    LET g4 == BumpDegree(BumpDegree(g2, node_a), node_b)
    IN  [nodes |-> g4.nodes,
         dsu   |-> IF node_a # node_b THEN DsuUnion(g4.dsu, node_a, node_b) ELSE g4.dsu,
         edges |-> Append(g4.edges,
                       [a |-> node_a, b |-> node_b, ax |-> ax, ay |-> ay,
                        bx |-> bx, by |-> by, line_idx |-> line_idx])]

GraphStoreAddSegment(gs, ax, ay, bx, by, line_idx) ==
    AddSegmentBetween(GetOrCreateNode(GetOrCreateNode(gs, ax, ay), bx, by),
                      GetOrCreateNodeId(gs, ax, ay),
                      GetOrCreateNodeId(GetOrCreateNode(gs, ax, ay), bx, by),
                      ax, ay, bx, by, line_idx)

(***************************************************************************)
(* lib.rs : geometry helpers                                               *)
(***************************************************************************)
Line(x1, y1, x2, y2) == [x1 |-> x1, y1 |-> y1, x2 |-> x2, y2 |-> y2]

\* a rational n/d with d > 0
Frac(n, d) == IF d < 0 THEN [n |-> -n, d |-> -d] ELSE [n |-> n, d |-> d]

FracLess(p, q) == p.n * q.d < q.n * p.d

FracEq(p, q) == p.n * q.d = q.n * p.d

distance_sq(x1, y1, x2, y2) == (x2 - x1) * (x2 - x1) + (y2 - y1) * (y2 - y1)

cross(ax, ay, bx, by) == ax * by - ay * bx

\* round_to_i32(v * 1024.0): an integer coordinate times 1024 is already whole
Quantize(x, y) == << x * 1024, y * 1024 >>

\* line_intersection_params: NoHit, or the parameters t, u (as rationals
\* over the same denominator) and the point; the division is exact on the
\* grid of LineInputs
NoHit == [hit |-> FALSE]

line_intersection_params(l1, l2) ==
    LET denom == (l1.x1 - l1.x2) * (l2.y1 - l2.y2) - (l1.y1 - l1.y2) * (l2.x1 - l2.x2)
        tn == (l1.x1 - l2.x1) * (l2.y1 - l2.y2) - (l1.y1 - l2.y1) * (l2.x1 - l2.x2)
        un == -((l1.x1 - l1.x2) * (l1.y1 - l2.y1) - (l1.y1 - l1.y2) * (l1.x1 - l2.x1))
        t == Frac(tn, denom)
        u == Frac(un, denom)
    IN  IF denom = 0 THEN NoHit
        ELSE IF t.n >= 0 /\ t.n <= t.d /\ u.n >= 0 /\ u.n <= u.d
        THEN [hit |-> TRUE, t |-> t, u |-> u,
              ix |-> l1.x1 + (t.n * (l1.x2 - l1.x1)) \div t.d,
              iy |-> l1.y1 + (t.n * (l1.y2 - l1.y1)) \div t.d]
        ELSE NoHit

\* compute_angle_proxy, as a rational
compute_angle_proxy(dx, dy) ==
    LET abs_ratio == IF dx # 0 THEN Frac(Abs(dy), Abs(dx)) ELSE Frac(1000, 1)
    IN  IF dx = 0 /\ dy = 0 THEN Frac(0, 1)
        ELSE IF dx > 0 /\ dy >= 0 THEN abs_ratio
        ELSE IF dx <= 0 /\ dy > 0 THEN Frac(2 * abs_ratio.d - abs_ratio.n, abs_ratio.d)
        ELSE IF dx < 0 /\ dy <= 0 THEN Frac(2 * abs_ratio.d + abs_ratio.n, abs_ratio.d)
        ELSE Frac(4 * abs_ratio.d - abs_ratio.n, abs_ratio.d)

(***************************************************************************)
(* lib.rs : IntersectionRegistry                                           *)
(***************************************************************************)
\* rn = [entries, nodes]: the registry's entries and the node vector it fills
RegistryNew == [entries |-> << >>, nodes |-> << >>]

RegistryFind(rn, x, y) ==
    LET hits == {k \in 1 .. Len(rn.entries) :
                    << rn.entries[k][1], rn.entries[k][2] >> = Quantize(x, y)}
    IN  IF hits = {} THEN -1
        ELSE rn.entries[CHOOSE k \in hits : \A m \in hits : k <= m][3]

RegistryId(rn, x, y) ==
    IF RegistryFind(rn, x, y) >= 0 THEN RegistryFind(rn, x, y) ELSE Len(rn.nodes)

RegistryGetOrInsert(rn, x, y) ==
    IF RegistryFind(rn, x, y) >= 0 THEN rn
    ELSE [entries |-> Append(rn.entries,
                             << Quantize(x, y)[1], Quantize(x, y)[2], Len(rn.nodes) >>),
          nodes   |-> Append(rn.nodes, Pt(x, y))]

(***************************************************************************)
(* lib.rs : Editor::build_fill_graph, the arrangement                      *)
(***************************************************************************)
EmptyFillGraph ==
    [nodes |-> << >>, segments |-> << >>, half_edges |-> << >>,
     outgoing |-> << >>, node_sectors |-> << >>]

\* st = [rn, per]: registry with nodes, and per_line_nodes (entries [t, nid]).
\* per holds one entry for each line handled so far; the loops below read
\* their accumulator in the loop test, which makes TLC evaluate it iteration
\* by iteration instead of as one nested expression at the end
RECURSIVE InsertEndpoints(_, _, _)
InsertEndpoints(ls, k, st) ==
    IF k > Len(ls) \/ Len(st.per) >= Len(ls) THEN st
    ELSE LET l == ls[k]
             rn1 == RegistryGetOrInsert(st.rn, l.x1, l.y1)
             n0 == RegistryId(st.rn, l.x1, l.y1)
             rn2 == RegistryGetOrInsert(rn1, l.x2, l.y2)
             n1 == RegistryId(rn1, l.x2, l.y2)
         IN  InsertEndpoints(ls, k + 1,
                 [rn |-> rn2,
                  per |-> Append(st.per, << [t |-> Frac(0, 1), nid |-> n0],
                                            [t |-> Frac(1, 1), nid |-> n1] >>)])

\* the body of the loop over pairs i < j (1-based positions in ls), given
\* h = line_intersection_params(ls[i], ls[j])
AddIntersection(st, i, j, h) ==
    IF h.hit /\ h.t.n > 0 /\ h.t.n < h.t.d /\ h.u.n > 0 /\ h.u.n < h.u.d
    THEN [rn  |-> RegistryGetOrInsert(st.rn, h.ix, h.iy),
          per |-> [st.per EXCEPT
                      ![i] = Append(@, [t |-> h.t, nid |-> RegistryId(st.rn, h.ix, h.iy)]),
                      ![j] = Append(@, [t |-> h.u, nid |-> RegistryId(st.rn, h.ix, h.iy)])]]
    ELSE st

IntersectPair(ls, i, j, st) ==
    AddIntersection(st, i, j, line_intersection_params(ls[i], ls[j]))

RECURSIVE CollectIntersections(_, _, _, _)
CollectIntersections(ls, i, j, st) ==
    IF i > Len(st.per) THEN st
    ELSE IF j > Len(ls) THEN CollectIntersections(ls, i + 1, i + 2, st)
    ELSE CollectIntersections(ls, i, j + 1, IntersectPair(ls, i, j, st))

\* nodes_on_line.sort_by(t): a stable sort
RECURSIVE InsertByT(_, _)
InsertByT(sorted, e) ==
    IF sorted = << >> THEN << e >>
    ELSE IF FracLess(e.t, sorted[Len(sorted)].t)
    THEN Append(InsertByT(SubSeq(sorted, 1, Len(sorted) - 1), e), sorted[Len(sorted)])
    ELSE Append(sorted, e)

\* the entries of a line left in the order they were registered
SortByTUnsorted(s, k, acc) == s

RECURSIVE SortByT(_, _, _)
SortByT(s, k, acc) ==
    IF k > Len(s) THEN acc ELSE SortByT(s, k + 1, InsertByT(acc, s[k]))

\* deduplicate consecutive identical node ids
RECURSIVE Compact(_, _, _)
Compact(s, k, acc) ==
    IF k > Len(s) THEN acc
    ELSE IF acc = << >> \/ acc[Len(acc)].nid # s[k].nid
    THEN Compact(s, k + 1, Append(acc, s[k]))
    ELSE Compact(s, k + 1, acc)

RECURSIVE SegmentsOfLine(_, _, _)
SegmentsOfLine(compact, k, segs) ==
    IF k >= Len(compact) THEN segs
    ELSE SegmentsOfLine(compact, k + 1,
             IF compact[k].nid # compact[k + 1].nid
             THEN Append(segs, [a |-> compact[k].nid, b |-> compact[k + 1].nid])
             ELSE segs)

RECURSIVE BuildSegments(_, _, _)
BuildSegments(per, k, segs) ==
    IF k > Len(per) THEN segs
    ELSE LET compact == Compact(SortByT(per[k], 1, << >>), 1, << >>)
         IN  BuildSegments(per, k + 1,
                 IF Len(per[k]) < 2 \/ Len(compact) < 2 THEN segs
                 ELSE SegmentsOfLine(compact, 1, segs))

\* both half-edges of a segment pointing from a to b
BuildHalfEdgesOneWay(segs) ==
    [h \in 1 .. 2 * Len(segs) |->
        [from |-> At(segs, (h - 1) \div 2).a, to |-> At(segs, (h - 1) \div 2).b,
         seg |-> (h - 1) \div 2]]

BuildHalfEdges(segs) ==
    [h \in 1 .. 2 * Len(segs) |->
        LET seg_idx == (h - 1) \div 2
            seg == At(segs, seg_idx)
        IN  IF (h - 1) % 2 = 0
            THEN [from |-> seg.a, to |-> seg.b, seg |-> seg_idx]
            ELSE [from |-> seg.b, to |-> seg.a, seg |-> seg_idx]]

\* node_sectors[n]: for each segment in order, pushed to a and then to b
RECURSIVE SectorIds(_, _, _)
SectorIds(segs, node, k) ==
    IF k >= Len(segs) THEN << >>
    ELSE (IF At(segs, k).a = node THEN << k >> ELSE << >>)
         \o (IF At(segs, k).b = node THEN << k >> ELSE << >>)
         \o SectorIds(segs, node, k + 1)

BuildNodeSectors(nodes, segs) ==
    [n \in 1 .. Len(nodes) |-> SectorIds(segs, n - 1, 0)]

\* outgoing[n] before sorting: half-edge indices in order
RECURSIVE LeavingIds(_, _, _)
LeavingIds(hes, node, k) ==
    IF k >= Len(hes) THEN << >>
    ELSE (IF At(hes, k).from = node THEN << k >> ELSE << >>)
         \o LeavingIds(hes, node, k + 1)

BuildOutgoingUnsorted(nodes, hes) ==
    [n \in 1 .. Len(nodes) |-> LeavingIds(hes, n - 1, 0)]

HalfEdgeAngle(nodes, hes, node_idx, he_idx) ==
    compute_angle_proxy(At(nodes, At(hes, he_idx).to).x - At(nodes, node_idx).x,
                        At(nodes, At(hes, he_idx).to).y - At(nodes, node_idx).y)

\* outgoing_edges.sort_by(angle proxy): a stable sort
RECURSIVE InsertByAngle(_, _, _, _, _)
InsertByAngle(nodes, hes, node_idx, sorted, h) ==
    IF sorted = << >> THEN << h >>
    ELSE IF FracLess(HalfEdgeAngle(nodes, hes, node_idx, h),
                     HalfEdgeAngle(nodes, hes, node_idx, sorted[Len(sorted)]))
    THEN Append(InsertByAngle(nodes, hes, node_idx,
                              SubSeq(sorted, 1, Len(sorted) - 1), h),
                sorted[Len(sorted)])
    ELSE Append(sorted, h)

RECURSIVE SortByAngle(_, _, _, _, _, _)
SortByAngle(nodes, hes, node_idx, s, k, acc) ==
    IF k > Len(s) THEN acc
    ELSE SortByAngle(nodes, hes, node_idx, s, k + 1,
                     InsertByAngle(nodes, hes, node_idx, acc, s[k]))

BuildOutgoing(nodes, hes) ==
    LET unsorted == BuildOutgoingUnsorted(nodes, hes)
    IN  [n \in 1 .. Len(nodes) |->
            SortByAngle(nodes, hes, n - 1, unsorted[n], 1, << >>)]

\* the graph once nodes, segments and half-edges are known
ArrangementOfHalfEdges(nodes, segs, hes) ==
    [nodes |-> nodes, segments |-> segs, half_edges |-> hes,
     outgoing |-> BuildOutgoing(nodes, hes),
     node_sectors |-> BuildNodeSectors(nodes, segs)]

ArrangementOfSegments(nodes, segs) ==
    ArrangementOfHalfEdges(nodes, segs, BuildHalfEdges(segs))

\* st = [rn, per] after endpoints and intersections
ArrangementOfNodes(st) ==
    ArrangementOfSegments(st.rn.nodes, BuildSegments(st.per, 1, << >>))

\* the arrangement of a non-empty line list
BuildArrangement(ls) ==
    ArrangementOfNodes(
        CollectIntersections(ls, 1, 2,
            InsertEndpoints(ls, 1, [rn |-> RegistryNew, per |-> << >>])))

(***************************************************************************)
(* lib.rs : Editor::build_fill_graph, degrees and leaf stripping           *)
(***************************************************************************)
ComputeNodeDegree(g) == [n \in 1 .. Len(g.nodes) |-> Len(g.node_sectors[n])]

\* the initial queue: every node of effective degree <= 1, ascending
RECURSIVE InitialLeafQueue(_, _)
InitialLeafQueue(eff, k) ==
    IF k >= Len(eff) THEN << >>
    ELSE (IF At(eff, k) <= 1 THEN << k >> ELSE << >>) \o InitialLeafQueue(eff, k + 1)

\* "Reduce neighbor degrees": the loop over outgoing[idx]
RECURSIVE ReduceNeighborsDropAll(_, _, _, _)
ReduceNeighborsDropAll(g, hs, k, st) ==
    IF k > Len(hs) THEN st
    ELSE LET nb == At(g.half_edges, hs[k]).to
         IN  ReduceNeighborsDropAll(g, hs, k + 1,
                 IF At(st.eff, nb) > 0
                 THEN [st EXCEPT !.eff = SetAt(st.eff, nb, At(st.eff, nb) - 1)]
                 ELSE st)

RECURSIVE ReduceNeighbors(_, _, _, _)
ReduceNeighbors(g, hs, k, st) ==
    IF k > Len(hs) THEN st
    ELSE LET nb == At(g.half_edges, hs[k]).to
             dec == At(st.eff, nb) - 1
         IN  ReduceNeighbors(g, hs, k + 1,
                 IF At(st.eff, nb) > 0
                 THEN [st EXCEPT !.eff = SetAt(st.eff, nb, dec),
                                 !.queue = IF dec <= 1 THEN Append(@, nb) ELSE @]
                 ELSE st)

\* while let Some(nid) = queue.pop()
RECURSIVE LeafStripLoop(_, _)
LeafStripLoop(g, st) ==
    IF st.queue = << >> THEN st
    ELSE LET idx == st.queue[Len(st.queue)]
             popped == [st EXCEPT !.queue = SubSeq(st.queue, 1, Len(st.queue) - 1)]
         IN  IF idx >= Len(st.allow) \/ ~At(st.allow, idx)
             THEN LeafStripLoop(g, popped)
             ELSE LeafStripLoop(g,
                      IF idx < Len(g.outgoing)
                      THEN ReduceNeighbors(g, At(g.outgoing, idx), 1,
                               [popped EXCEPT !.allow = SetAt(popped.allow, idx, FALSE)])
                      ELSE [popped EXCEPT !.allow = SetAt(popped.allow, idx, FALSE)])

LeafStrip(g) ==
    LET deg == ComputeNodeDegree(g)
    IN  LeafStripLoop(g, [allow |-> [n \in 1 .. Len(g.nodes) |-> TRUE],
                          eff   |-> deg,
                          queue |-> InitialLeafQueue(deg, 0)])

\* graph_store.clear(), then add_segment for every line in order
RECURSIVE StoreAddLines(_, _, _)
StoreAddLines(ls, k, gs) ==
    IF k > Len(ls) \/ Len(gs.edges) >= Len(ls) THEN gs
    ELSE StoreAddLines(ls, k + 1,
             GraphStoreAddSegment(gs, ls[k].x1, ls[k].y1, ls[k].x2, ls[k].y2, k - 1))

\* the degree arrays of graph g, strip being the result of the leaf stripping
DerivedOfStrip(g, strip, store) ==
    [fill_graph       |-> g,
     node_degree      |-> ComputeNodeDegree(g),
     allow_node       |-> strip.allow,
     effective_degree |-> strip.eff,
     graph_store      |-> store]

DerivedOf(g, store) == DerivedOfStrip(g, LeafStrip(g), store)

\* build_fill_graph as a function of the line list and of the derived state
\* it starts from (old): with an empty line list it returns after clearing the
\* fill graph, before the graph store and the degree arrays are touched
BuildFillGraphKeepGraph(ls, old) ==
    IF ls = << >>
    THEN old
    ELSE DerivedOf(BuildArrangement(ls),
                   StoreAddLines(ls, 1, GraphStoreClear(old.graph_store)))

BuildFillGraph(ls, old) ==
    IF ls = << >>
    THEN [old EXCEPT !.fill_graph = EmptyFillGraph]
    ELSE DerivedOf(BuildArrangement(ls),
                   StoreAddLines(ls, 1, GraphStoreClear(old.graph_store)))

\* the derived state of the editor, as build_fill_graph reads and writes it
Derived ==
    [fill_graph |-> fill_graph, node_degree |-> node_degree, allow_node |-> allow_node,
     effective_degree |-> effective_degree, graph_store |-> graph_store]

(***************************************************************************)
(* lib.rs : Editor::cleanup_overhangs, the stripping loop                  *)
(***************************************************************************)
\* degree[n]: the number of segment ends at n
SegmentDegree(g) ==
    [n \in 1 .. Len(g.nodes) |->
        Cardinality({k \in 1 .. Len(g.segments) : g.segments[k].a = n - 1})
        + Cardinality({k \in 1 .. Len(g.segments) : g.segments[k].b = n - 1})]

\* the first segment not yet deleted that touches node_idx, or -1
AliveSegmentIdx(g, deleted, node_idx) ==
    LET alive == {k \in Ids(g.segments) :
                     /\ ~At(deleted, k)
                     /\ (At(g.segments, k).a = node_idx \/ At(g.segments, k).b = node_idx)}
    IN  IF alive = {} THEN -1 ELSE CHOOSE k \in alive : \A m \in alive : k <= m

\* st = [degree, queue, deleted]
RECURSIVE OverhangLoop(_, _)
OverhangLoop(g, st) ==
    IF st.queue = << >> THEN st
    ELSE LET node_idx == st.queue[Len(st.queue)]
             popped == [st EXCEPT !.queue = SubSeq(st.queue, 1, Len(st.queue) - 1)]
             seg_idx == AliveSegmentIdx(g, st.deleted, node_idx)
             seg == At(g.segments, seg_idx)
             other_idx == IF seg.a = node_idx THEN seg.b ELSE seg.a
             degree1 == SetAt(st.degree, node_idx, 0)
             dec == At(degree1, other_idx) - 1
         IN  IF At(st.degree, node_idx) > 1 \/ At(st.degree, node_idx) = 0 \/ seg_idx < 0
             THEN OverhangLoop(g, popped)
             ELSE OverhangLoop(g,
                      [deleted |-> SetAt(st.deleted, seg_idx, TRUE),
                       degree  |-> IF other_idx < Len(degree1) /\ At(degree1, other_idx) > 0
                                   THEN SetAt(degree1, other_idx, dec)
                                   ELSE degree1,
                       queue   |-> IF other_idx < Len(degree1) /\ At(degree1, other_idx) > 0
                                      /\ dec <= 1
                                   THEN Append(popped.queue, other_idx)
                                   ELSE popped.queue])

\* delete_segment after the loop
OverhangDeleted(g) ==
    OverhangLoop(g, [degree  |-> SegmentDegree(g),
                     queue   |-> InitialLeafQueue(SegmentDegree(g), 0),
                     deleted |-> [k \in 1 .. Len(g.segments) |-> FALSE]]).deleted

\* every segment as a line, deleted or not
RECURSIVE KeptLinesAll(_, _, _)
KeptLinesAll(g, deleted, k) ==
    IF k >= Len(g.segments) THEN << >>
    ELSE << Line(At(g.nodes, At(g.segments, k).a).x, At(g.nodes, At(g.segments, k).a).y,
                 At(g.nodes, At(g.segments, k).b).x, At(g.nodes, At(g.segments, k).b).y) >>
         \o KeptLinesAll(g, deleted, k + 1)

\* "Collect all KEPT segments as new lines"
RECURSIVE KeptLines(_, _, _)
KeptLines(g, deleted, k) ==
    IF k >= Len(g.segments) THEN << >>
    ELSE (IF At(deleted, k) THEN << >>
          ELSE << Line(At(g.nodes, At(g.segments, k).a).x, At(g.nodes, At(g.segments, k).a).y,
                       At(g.nodes, At(g.segments, k).b).x, At(g.nodes, At(g.segments, k).b).y) >>)
         \o KeptLines(g, deleted, k + 1)

(***************************************************************************)
(* lib.rs : Editor::trace_face_side                                        *)
(*                                                                         *)
(* Angles are kept in units of pi/4 as rationals.  Lengths are kept as     *)
(* their squares: sqrt_approx is strictly increasing, so the order of two  *)
(* lengths is the order of their squares.  mid_dist is kept as four times  *)
(* the squared distance (the midpoint has half-integer coordinates).       *)
(***************************************************************************)
GAP_RADIUS == 12

\* stands for u32::MAX: above every half-edge index, within the integer range
U32_MAX == 2147483647

\* atan2_approx(y, x) in units of pi/4
atan2_approx(y, x) ==
    LET abs_y == Abs(y)
        angle == IF x > 0 THEN Frac(2 * abs_y, x + abs_y)
                 ELSE Frac(2 * abs_y - 4 * x, abs_y - x)
    IN  IF x = 0
        THEN (IF y > 0 THEN Frac(2, 1) ELSE IF y < 0 THEN Frac(-2, 1) ELSE Frac(0, 1))
        ELSE IF y < 0 THEN Frac(-angle.n, angle.d) ELSE angle

\* turn_angle_signed on the directions (vinx, viny) and (voutx, vouty); the
\* common positive factor 1 / (vinlen * voutlen) does not change the result
turn_angle_signed(vinx, viny, voutx, vouty) ==
    IF (vinx = 0 /\ viny = 0) \/ (voutx = 0 /\ vouty = 0) THEN Frac(0, 1)
    ELSE atan2_approx(vinx * vouty - viny * voutx, vinx * voutx + viny * vouty)

FracAbs(p) == Frac(Abs(p.n), p.d)

\* turn > ANG_EPS for KeepLeft, turn < -ANG_EPS for KeepRight
AcceptedSide(side_rule, turn) ==
    IF side_rule = "KeepLeft" THEN turn.n > 0 ELSE turn.n < 0

EdgeKey(from, to, seg, is_virtual) ==
    [from |-> from, to |-> to, seg |-> seg, is_virtual |-> is_virtual]

edge_visited(visited, key) == \E k \in 1 .. Len(visited) : visited[k] = key

\* find_segment_id: the first segment of node_sectors[from] joining from and to
find_segment_id(g, from, to) ==
    LET hits == {k \in 1 .. (IF from < Len(g.node_sectors)
                             THEN Len(At(g.node_sectors, from)) ELSE 0) :
                    LET seg == At(g.segments, At(g.node_sectors, from)[k])
                    IN  (seg.a = from /\ seg.b = to) \/ (seg.b = from /\ seg.a = to)}
    IN  IF hits = {} THEN -1
        ELSE At(g.node_sectors, from)[CHOOSE k \in hits : \A m \in hits : k <= m]

TraceMaxStepsTwo(g) == 2

TraceMaxSteps(g) ==
    IF 8 > Len(g.segments) * 3 + 20 THEN 8 ELSE Len(g.segments) * 3 + 20

\* the better-than test of pick_candidate_idx
CandidateBetter(cand, best_cand) ==
    IF FracLess(cand.abs_turn, best_cand.abs_turn) THEN TRUE
    ELSE IF FracEq(cand.abs_turn, best_cand.abs_turn)
    THEN IF ~cand.is_virtual /\ best_cand.is_virtual THEN TRUE
         ELSE IF cand.is_virtual = best_cand.is_virtual
         THEN IF cand.len < best_cand.len THEN TRUE
              ELSE IF cand.len = best_cand.len
              THEN IF cand.mid_dist < best_cand.mid_dist THEN TRUE
                   ELSE IF cand.mid_dist = best_cand.mid_dist
                   THEN IF cand.next < best_cand.next THEN TRUE
                        ELSE IF cand.next = best_cand.next
                        THEN (IF cand.he_idx < 0 THEN U32_MAX ELSE cand.he_idx)
                             < (IF best_cand.he_idx < 0 THEN U32_MAX ELSE best_cand.he_idx)
                        ELSE FALSE
                   ELSE FALSE
              ELSE FALSE
         ELSE FALSE
    ELSE FALSE

\* pick_candidate_idx: indices is a non-empty sequence of positions in cands
RECURSIVE PickLoop(_, _, _, _)
PickLoop(cands, indices, k, best) ==
    IF k > Len(indices) THEN best
    ELSE PickLoop(cands, indices, k + 1,
                  IF CandidateBetter(cands[indices[k]], cands[best]) THEN indices[k] ELSE best)

pick_candidate_idx(cands, indices) == PickLoop(cands, indices, 2, indices[1])

\* e = [g, eff, allow]: the fill graph and the pruning arrays the walk reads
TraceEnv == [g |-> fill_graph, eff |-> effective_degree, allow |-> allow_node]

EffDegOrZero(e, n) == IF n < Len(e.eff) THEN At(e.eff, n) ELSE 0

AllowOrTrue(e, n) == IF n < Len(e.allow) THEN At(e.allow, n) ELSE TRUE

MidDist4(tr, a, b) ==
    (2 * tr.ox - (a.x + b.x)) * (2 * tr.ox - (a.x + b.x))
    + (2 * tr.oy - (a.y + b.y)) * (2 * tr.oy - (a.y + b.y))

\* the turn from the incoming direction prev -> cur to the direction cur -> next
TurnTo(e, tr, next) ==
    LET cur_pt == At(e.g.nodes, tr.cur_node)
        prev_pt == At(e.g.nodes, tr.prev_node)
        next_pt == At(e.g.nodes, next)
    IN  turn_angle_signed(cur_pt.x - prev_pt.x, cur_pt.y - prev_pt.y,
                          next_pt.x - cur_pt.x, next_pt.y - cur_pt.y)

\* squared distance from the current node to node next
Dist2To(e, tr, next) ==
    distance_sq(At(e.g.nodes, tr.cur_node).x, At(e.g.nodes, tr.cur_node).y,
                At(e.g.nodes, next).x, At(e.g.nodes, next).y)

\* a TraceCandidate towards node next, turn being the turn to it
Candidate(e, tr, next, turn, is_virtual, visited, he_idx, seg_id) ==
    [next |-> next, turn |-> turn, abs_turn |-> FracAbs(turn),
     is_virtual |-> is_virtual, visited |-> visited,
     he_idx |-> he_idx, seg_id |-> seg_id,
     len |-> Dist2To(e, tr, next),
     mid_dist |-> MidDist4(tr, At(e.g.nodes, tr.cur_node), At(e.g.nodes, next)),
     dist2 |-> Dist2To(e, tr, next),
     accepted_side |-> AcceptedSide(tr.side_rule, turn)]

\* the candidate the loop over outgoing[cur] builds for half-edge he_idx
RealCandidate(e, tr, he_idx) ==
    LET he == At(e.g.half_edges, he_idx)
    IN  Candidate(e, tr, he.to, TurnTo(e, tr, he.to), FALSE,
                  edge_visited(tr.visited_edges, EdgeKey(tr.cur_node, he.to, he.seg, FALSE)),
                  he_idx, he.seg)

\* the filters of the loop over outgoing[cur] without the test of the
\* effective degree and the allowed flag
RealCandidateUsableUnpruned(e, tr, he_idx) ==
    LET he == At(e.g.half_edges, he_idx)
        key == EdgeKey(tr.cur_node, he.to, he.seg, FALSE)
    IN  /\ he.to # tr.prev_node
        /\ Dist2To(e, tr, he.to) # 0
        /\ ~(edge_visited(tr.visited_edges, key) /\ key # tr.start_edge)

\* the filters of the loop over outgoing[cur] with visited transitions let
\* through
RealCandidateUsableRevisit(e, tr, he_idx) ==
    LET he == At(e.g.half_edges, he_idx)
    IN  /\ he.to # tr.prev_node
        /\ Dist2To(e, tr, he.to) # 0
        /\ ~(EffDegOrZero(e, he.to) <= 1 \/ ~AllowOrTrue(e, he.to))

\* the filters of the loop over outgoing[cur]
RealCandidateUsable(e, tr, he_idx) ==
    LET he == At(e.g.half_edges, he_idx)
        key == EdgeKey(tr.cur_node, he.to, he.seg, FALSE)
    IN  /\ he.to # tr.prev_node
        /\ Dist2To(e, tr, he.to) # 0
        /\ ~(EffDegOrZero(e, he.to) <= 1 \/ ~AllowOrTrue(e, he.to))
        /\ ~(edge_visited(tr.visited_edges, key) /\ key # tr.start_edge)

RECURSIVE RealCandidates(_, _, _, _)
RealCandidates(e, tr, outs, k) ==
    IF k > Len(outs) THEN << >>
    ELSE (IF RealCandidateUsable(e, tr, outs[k])
          THEN << RealCandidate(e, tr, outs[k]) >> ELSE << >>)
         \o RealCandidates(e, tr, outs, k + 1)

\* gap bridging: the nodes that pass the filters up to the radius test
GapInRange(e, tr, nid) ==
    /\ nid # tr.cur_node /\ nid # tr.prev_node
    /\ nid < Len(e.eff)
    /\ ~(At(e.eff, nid) < 2 \/ ~AllowOrTrue(e, nid))
    /\ Dist2To(e, tr, nid) <= tr.gap_r2

GapCandidate(e, tr, nid) ==
    Candidate(e, tr, nid, TurnTo(e, tr, nid), TRUE, FALSE, -1, -1)

\* gap_candidates: in range, non-degenerate, virtual transition not visited
RECURSIVE GapCandidates(_, _, _)
GapCandidates(e, tr, nid) ==
    IF nid >= Len(e.g.nodes) THEN << >>
    ELSE (IF /\ GapInRange(e, tr, nid)
             /\ Dist2To(e, tr, nid) # 0
             /\ ~edge_visited(tr.visited_edges, EdgeKey(tr.cur_node, nid, -1, TRUE))
          THEN << GapCandidate(e, tr, nid) >> ELSE << >>)
         \o GapCandidates(e, tr, nid + 1)

\* best_dist: the least dist2 over the nodes in range (-1 stands for infinity);
\* it is taken before the degenerate and the visited filters
MinOrNone(ds) == IF ds = {} THEN -1 ELSE CHOOSE d \in ds : \A d2 \in ds : d <= d2

\* the least dist2 taken over the nodes whose virtual transition is not visited
GapBestDistUnvisited(e, tr) ==
    MinOrNone({Dist2To(e, tr, nid) :
                  nid \in {n \in Ids(e.g.nodes) :
                              /\ GapInRange(e, tr, n)
                              /\ ~edge_visited(tr.visited_edges,
                                               EdgeKey(tr.cur_node, n, -1, TRUE))}})

GapBestDist(e, tr) ==
    MinOrNone({Dist2To(e, tr, nid) : nid \in {n \in Ids(e.g.nodes) : GapInRange(e, tr, n)}})

RECURSIVE KeepNearest(_, _, _)
KeepNearest(cands, best_dist, k) ==
    IF k > Len(cands) THEN << >>
    ELSE (IF cands[k].dist2 <= best_dist THEN << cands[k] >> ELSE << >>)
         \o KeepNearest(cands, best_dist, k + 1)

\* the gap candidates pushed to usable
GapUsable(gap_candidates, best_dist) ==
    IF gap_candidates # << >> /\ best_dist >= 0
    THEN KeepNearest(gap_candidates, best_dist, 1)
    ELSE << >>

\* the real candidates and the nearest gap candidates in one list
UsableFromBoth(e, tr, real) ==
    real \o GapUsable(GapCandidates(e, tr, 0), GapBestDist(e, tr))

\* usable, given the real candidates
UsableFrom(e, tr, real) ==
    IF real # << >> THEN real
    ELSE GapUsable(GapCandidates(e, tr, 0), GapBestDist(e, tr))

\* usable as it would be if no node were pruned
UsableCandidatesUnpruned(e, tr) ==
    LET e2 == [g |-> e.g, eff |-> [n \in 1 .. Len(e.eff) |-> 2],
               allow |-> [n \in 1 .. Len(e.allow) |-> TRUE]]
    IN  UsableFrom(e2, tr, IF tr.cur_node < Len(e2.g.outgoing)
                           THEN RealCandidates(e2, tr, At(e2.g.outgoing, tr.cur_node), 1)
                           ELSE << >>)

\* usable: the real candidates, or when there is none the nearest gap candidates
UsableCandidates(e, tr) ==
    UsableFrom(e, tr, IF tr.cur_node < Len(e.g.outgoing)
                      THEN RealCandidates(e, tr, At(e.g.outgoing, tr.cur_node), 1)
                      ELSE << >>)

RECURSIVE SideIndices(_, _)
SideIndices(usable, k) ==
    IF k > Len(usable) THEN << >>
    ELSE (IF usable[k].accepted_side THEN << k >> ELSE << >>) \o SideIndices(usable, k + 1)

\* a pool that ignores the side rule
PoolIndicesAll(usable) == [k \in 1 .. Len(usable) |-> k]

PoolIndices(usable) ==
    IF SideIndices(usable, 1) # << >> THEN SideIndices(usable, 1)
    ELSE [k \in 1 .. Len(usable) |-> k]

\* the nodes counted by the closure check: start_from and both ends of every
\* visited edge
UniqueNodes(tr) ==
    {tr.start_from} \cup {tr.visited_edges[k].from : k \in 1 .. Len(tr.visited_edges)}
                    \cup {tr.visited_edges[k].to : k \in 1 .. Len(tr.visited_edges)}

TraceFail(tr, reason, steps) ==
    [tr EXCEPT !.status = reason, !.closed = FALSE, !.points = << >>, !.steps = steps]

\* the state of the walk when the loop is first entered
TraceStartAt(tr0, start_pt, start_edge) ==
    [tr0 EXCEPT !.boundary_points = << << start_pt.x, start_pt.y >> >>,
                !.start_edge = start_edge,
                !.visited_edges = << start_edge >>]

TraceLocals(e, start_from, start_to, side_rule, ox, oy, gap_radius) ==
    [start_from |-> start_from, start_to |-> start_to, side_rule |-> side_rule,
     ox |-> ox, oy |-> oy, gap_r2 |-> gap_radius * gap_radius,
     start_edge |-> EdgeKey(start_from, start_to, -1, FALSE),
     max_steps |-> TraceMaxSteps(e.g),
     cur_node |-> start_to, prev_node |-> start_from,
     boundary_points |-> << >>, visited_edges |-> << >>, step_idx |-> 0,
     status |-> "running", closed |-> FALSE, points |-> << >>, steps |-> 0]

TraceStart(e, start_from, start_to, side_rule, ox, oy, gap_radius) ==
    IF start_from >= Len(e.g.nodes) \/ start_to >= Len(e.g.nodes)
    THEN TraceFail(TraceLocals(e, start_from, start_to, side_rule, ox, oy, gap_radius),
                   "DeadEnd", 0)
    ELSE TraceStartAt(TraceLocals(e, start_from, start_to, side_rule, ox, oy, gap_radius),
                      At(e.g.nodes, start_to),
                      EdgeKey(start_from, start_to,
                              find_segment_id(e.g, start_from, start_to), FALSE))

\* the rest of an iteration once the candidate is chosen
TraceTake(e, tr, chosen) ==
    LET selected_key == EdgeKey(tr.cur_node, chosen.next, chosen.seg_id, chosen.is_virtual)
        pts == Append(tr.boundary_points,
                      << At(e.g.nodes, chosen.next).x, At(e.g.nodes, chosen.next).y >>)
    IN  IF selected_key = tr.start_edge /\ tr.step_idx >= 1
        THEN IF Cardinality(UniqueNodes(tr)) < 3
             THEN TraceFail([tr EXCEPT !.boundary_points = pts], "DeadEnd", tr.step_idx)
             ELSE [tr EXCEPT !.boundary_points = pts, !.status = "closed",
                             !.closed = TRUE, !.points = pts, !.steps = tr.step_idx + 1]
        ELSE IF edge_visited(tr.visited_edges, selected_key)
        THEN TraceFail([tr EXCEPT !.boundary_points = pts], "PrematureCycle", tr.step_idx)
        ELSE [tr EXCEPT !.boundary_points = pts,
                        !.visited_edges = Append(tr.visited_edges, selected_key),
                        !.prev_node = tr.cur_node,
                        !.cur_node = chosen.next,
                        !.step_idx = tr.step_idx + 1]

\* the rest of an iteration once usable is filled
TraceChoose(e, tr, usable) ==
    IF usable = << >> THEN TraceFail(tr, "DeadEnd", tr.step_idx)
    ELSE TraceTake(e, tr, usable[pick_candidate_idx(usable, PoolIndices(usable))])

\* one iteration of the loop of trace_face_side, usable being the candidates
\* the iteration collects
TraceIterate(e, tr, usable) ==
    IF tr.step_idx >= tr.max_steps THEN TraceFail(tr, "StepLimit", tr.step_idx)
    ELSE TraceChoose(e, tr, usable)

TraceStep(e, tr) == TraceIterate(e, tr, UsableCandidates(e, tr))

\* trace_face_side: the loop run to its return
RECURSIVE TraceRun(_, _)
TraceRun(e, tr) == IF tr.status # "running" THEN tr ELSE TraceRun(e, TraceStep(e, tr))

trace_face_side(e, start_from, start_to, side_rule, ox, oy, gap_radius) ==
    TraceRun(e, TraceStart(e, start_from, start_to, side_rule, ox, oy, gap_radius))

MIN_AREA == 50

FILL_COLOR == 1953789183

RECURSIVE AreaSum(_, _)
AreaSum(points, i) ==
    IF i > Len(points) THEN 0
    ELSE LET p0 == points[i]
             p1 == points[(i % Len(points)) + 1]
         IN  p0[1] * p1[2] - p1[1] * p0[2] + AreaSum(points, i + 1)

signed_area_2x(points) == IF Len(points) < 3 THEN 0 ELSE AreaSum(points, 1)

\* the edge poly[j] -> poly[i] crosses the ray to the right of pt
RayCrosses(pt, p0, p1) ==
    /\ (p0[2] > pt[2]) # (p1[2] > pt[2])
    /\ IF p1[2] - p0[2] > 0
       THEN (pt[1] - p0[1]) * (p1[2] - p0[2]) < (p1[1] - p0[1]) * (pt[2] - p0[2])
       ELSE (pt[1] - p0[1]) * (p1[2] - p0[2]) > (p1[1] - p0[1]) * (pt[2] - p0[2])

point_in_poly_evenodd(pt, poly) ==
    IF Len(poly) < 3 THEN FALSE
    ELSE IF \E i \in 1 .. Len(poly) : poly[i] = pt THEN FALSE
    ELSE Cardinality({i \in 1 .. Len(poly) :
             RayCrosses(pt, poly[IF i = 1 THEN Len(poly) ELSE i - 1], poly[i])}) % 2 = 1

\* squared distance from the click to its projection on segment a-b, the
\* parameter t clamped to [0, 1]: inside the segment that is cross^2 / len^2
SeedDist(g, seg, ox, oy) ==
    LET a == At(g.nodes, seg.a)
        b == At(g.nodes, seg.b)
        dx == b.x - a.x
        dy == b.y - a.y
        seg_len_sq == dx * dx + dy * dy
        t == (ox - a.x) * dx + (oy - a.y) * dy
        c == cross(dx, dy, ox - a.x, oy - a.y)
    IN  IF seg_len_sq > 0
        THEN IF t < 0 THEN Frac(distance_sq(ox, oy, a.x, a.y), 1)
             ELSE IF t > seg_len_sq THEN Frac(distance_sq(ox, oy, b.x, b.y), 1)
             ELSE Frac(c * c, seg_len_sq)
        ELSE Frac(distance_sq(ox, oy, a.x, a.y), 1)

SectorCount(g, n) == IF n < Len(g.node_sectors) THEN Len(At(g.node_sectors, n)) ELSE 0

\* the seed candidates: segments whose two ends both have at least 2 sectors
SeedCandidates(g) ==
    {i \in Ids(g.segments) :
        /\ SectorCount(g, At(g.segments, i).a) >= 2
        /\ SectorCount(g, At(g.segments, i).b) >= 2}

\* the stable sort by distance keeps the lowest index among the nearest
NearestSeed(g, cands, ox, oy) ==
    CHOOSE i \in cands :
        \A j \in cands :
            \/ FracLess(SeedDist(g, At(g.segments, i), ox, oy),
                        SeedDist(g, At(g.segments, j), ox, oy))
            \/ /\ ~FracLess(SeedDist(g, At(g.segments, j), ox, oy),
                            SeedDist(g, At(g.segments, i), ox, oy))
               /\ i <= j

BestSeed(g, ox, oy) == NearestSeed(g, SeedCandidates(g), ox, oy)

\* the side rule with a point on the line counted as left
SideOfOrOn(g, from, to, ox, oy) ==
    LET pa == At(g.nodes, from)
        pb == At(g.nodes, to)
    IN  IF cross(pb.x - pa.x, pb.y - pa.y, ox - pa.x, oy - pa.y) >= 0
        THEN "KeepLeft" ELSE "KeepRight"

SideOf(g, from, to, ox, oy) ==
    LET pa == At(g.nodes, from)
        pb == At(g.nodes, to)
    IN  IF cross(pb.x - pa.x, pb.y - pa.y, ox - pa.x, oy - pa.y) > 0
        THEN "KeepLeft" ELSE "KeepRight"

\* twice the area, so that area > MIN_AREA reads Area2 > 2 * MIN_AREA
TraceArea2(r) == Abs(signed_area_2x(r.points))

\* the validation with area >= MIN_AREA in place of area > MIN_AREA
TraceValidAtLeast(r, ox, oy) ==
    /\ r.closed /\ Len(r.points) >= 3
    /\ TraceArea2(r) >= 2 * MIN_AREA
    /\ point_in_poly_evenodd(<<ox, oy>>, r.points)

TraceValid(r, ox, oy) ==
    /\ r.closed /\ Len(r.points) >= 3
    /\ TraceArea2(r) > 2 * MIN_AREA
    /\ point_in_poly_evenodd(<<ox, oy>>, r.points)

\* the dual trace of fill_debug_at from seed segment seg: both results, in the
\* order (ab, ba)
DualTraceFrom(e, seg, ox, oy) ==
    << trace_face_side(e, seg.a, seg.b, SideOf(e.g, seg.a, seg.b, ox, oy),
                       ox, oy, GAP_RADIUS),
       trace_face_side(e, seg.b, seg.a, SideOf(e.g, seg.b, seg.a, ox, oy),
                       ox, oy, GAP_RADIUS) >>

DualTrace(e, ox, oy) == DualTraceFrom(e, At(e.g.segments, BestSeed(e.g, ox, oy)), ox, oy)

\* the selection with the larger area preferred
SelectAmongLargest(valid, tie_first) ==
    IF valid = << >> THEN << >>
    ELSE IF Len(valid) = 1 THEN << valid[1] >>
    ELSE IF TraceArea2(valid[1]) > TraceArea2(valid[2]) THEN << valid[1] >>
    ELSE IF TraceArea2(valid[2]) > TraceArea2(valid[1]) THEN << valid[2] >>
    ELSE IF tie_first THEN << valid[1] >> ELSE << valid[2] >>

\* selected, given valid_results. The comparator given to min_by never
\* answers Equal, so on equal areas the result is the one the library's
\* min_by keeps for an inconsistent order: tie_first tells which
SelectAmong(valid, tie_first) ==
    IF valid = << >> THEN << >>
    ELSE IF Len(valid) = 1 THEN << valid[1] >>
    ELSE IF TraceArea2(valid[1]) < TraceArea2(valid[2]) THEN << valid[1] >>
    ELSE IF TraceArea2(valid[2]) < TraceArea2(valid[1]) THEN << valid[2] >>
    ELSE IF tie_first THEN << valid[1] >> ELSE << valid[2] >>

SelectResult(rs, ox, oy, tie_first) ==
    SelectAmong(SelectSeq(rs, LAMBDA r : TraceValid(r, ox, oy)), tie_first)

Polygon(points, color) == [points |-> points, color |-> color]

\* the ring pushed without its last point
PolygonFromSelectedOpen(points) ==
    IF Len(points) >= 3
    THEN << Polygon(SubSeq(points, 1, Len(points) - 1), FILL_COLOR) >>
    ELSE << >>

\* create_polygon_from_selected: the polygon pushed, if any
PolygonFromSelected(points) ==
    IF Len(points) >= 3
    THEN << Polygon(IF points[1] # points[Len(points)]
                    THEN Append(points, points[1]) ELSE points, FILL_COLOR) >>
    ELSE << >>

PolygonsOfSelected(sel) ==
    IF sel = << >> THEN << >> ELSE PolygonFromSelected(sel[1].points)

\* fill_debug_at: the polygons it appends (none or one), on the rebuilt graph d
FillDebugPolygons(d, ox, oy, tie_first) ==
    IF d.fill_graph.segments = << >> THEN << >>
    ELSE IF SeedCandidates(d.fill_graph) = {} THEN << >>
    ELSE PolygonsOfSelected(
             SelectResult(
                 DualTrace([g |-> d.fill_graph, eff |-> d.effective_degree,
                            allow |-> d.allow_node], ox, oy),
                 ox, oy, tie_first))

(***************************************************************************)
(* lib.rs : the legacy fill path of editor_fill                            *)
(***************************************************************************)
TOLERANCE == 10

DEFAULT_RGB == 7631988

\* parse_hex_color on a well-formed hex string of value rgb
parse_hex_color(rgb) == (rgb % 16777216) * 256 + 255

\* find_nearest_line with max_dist_sq = infinity: the first line holding the
\* endpoint nearest to (x, y), or -1
find_nearest_line(ls, x, y) ==
    LET EndDist(i) == IF distance_sq(x, y, ls[i].x1, ls[i].y1)
                           <= distance_sq(x, y, ls[i].x2, ls[i].y2)
                      THEN distance_sq(x, y, ls[i].x1, ls[i].y1)
                      ELSE distance_sq(x, y, ls[i].x2, ls[i].y2)
    IN  IF ls = << >> THEN -1
        ELSE (CHOOSE i \in 1 .. Len(ls) :
                  \A j \in 1 .. Len(ls) :
                      EndDist(i) < EndDist(j) \/ (EndDist(i) = EndDist(j) /\ i <= j)) - 1

Connects(a, b) ==
    \/ Abs(a.x1 - b.x1) + Abs(a.y1 - b.y1) < TOLERANCE
    \/ Abs(a.x1 - b.x2) + Abs(a.y1 - b.y2) < TOLERANCE
    \/ Abs(a.x2 - b.x1) + Abs(a.y2 - b.y1) < TOLERANCE
    \/ Abs(a.x2 - b.x2) + Abs(a.y2 - b.y2) < TOLERANCE

\* the inner loop of find_connected_lines over other_idx
RECURSIVE ConnectScan(_, _, _, _)
ConnectScan(ls, idx, other_idx, st) ==
    IF other_idx >= Len(ls) THEN st
    ELSE ConnectScan(ls, idx, other_idx + 1,
             IF ~At(st.visited, other_idx) /\ Connects(At(ls, idx), At(ls, other_idx))
             THEN [st EXCEPT !.visited = SetAt(st.visited, other_idx, TRUE),
                             !.queue = Append(@, other_idx)]
             ELSE st)

\* st = [connected, visited, queue]
RECURSIVE ConnectLoop(_, _)
ConnectLoop(ls, st) ==
    IF st.queue = << >> THEN st
    ELSE LET idx == st.queue[Len(st.queue)]
         IN  ConnectLoop(ls, ConnectScan(ls, idx, 0,
                 [st EXCEPT !.queue = SubSeq(st.queue, 1, Len(st.queue) - 1),
                            !.connected = Append(@, idx)]))

find_connected_lines(ls, start_idx) ==
    IF ls = << >> \/ start_idx >= Len(ls) THEN << >>
    ELSE ConnectLoop(ls, [connected |-> << >>,
                          visited   |-> [k \in 1 .. Len(ls) |-> k - 1 = start_idx],
                          queue     |-> << start_idx >>]).connected

\* the first unused position i whose line starts or ends at current_end, or -1
NextLink(ls, line_indices, used, current_end) ==
    LET fit == {i \in Ids(line_indices) :
                   /\ ~At(used, i)
                   /\ LET line == At(ls, At(line_indices, i))
                      IN  \/ Abs(current_end[1] - line.x1) + Abs(current_end[2] - line.y1) < 1
                          \/ Abs(current_end[1] - line.x2) + Abs(current_end[2] - line.y2) < 1}
    IN  IF fit = {} THEN -1 ELSE CHOOSE i \in fit : \A j \in fit : i <= j

\* st = [points, used, current_end]; round counts the outer loop
RECURSIVE TracePolygonLoop(_, _, _, _)
TracePolygonLoop(ls, line_indices, round, st) ==
    LET i == NextLink(ls, line_indices, st.used, st.current_end)
        line == At(ls, At(line_indices, i))
        far == IF Abs(st.current_end[1] - line.x1) + Abs(st.current_end[2] - line.y1) < 1
               THEN << line.x2, line.y2 >> ELSE << line.x1, line.y1 >>
    IN  IF round >= Len(line_indices) \/ i < 0 THEN st
        ELSE TracePolygonLoop(ls, line_indices, round + 1,
                 [points |-> Append(st.points, far), used |-> SetAt(st.used, i, TRUE),
                  current_end |-> far])

trace_polygon(ls, line_indices) ==
    IF line_indices = << >> THEN Polygon(<< >>, FILL_COLOR)
    ELSE LET first == At(ls, line_indices[1])
         IN  Polygon(TracePolygonLoop(ls, line_indices, 1,
                         [points |-> << << first.x1, first.y1 >>, << first.x2, first.y2 >> >>,
                          used |-> [k \in 1 .. Len(line_indices) |-> k = 1],
                          current_end |-> << first.x2, first.y2 >>]).points,
                     FILL_COLOR)

is_closed(polygon) == Len(polygon.points) > 2

ClosedPolygons(polygon, color) ==
    IF is_closed(polygon) THEN << [polygon EXCEPT !.color = color] >> ELSE << >>

\* editor_fill from the nearest line on: the polygons it appends
FillFromLine(ls, nearest_idx, rgb) ==
    IF nearest_idx < 0 THEN << >>
    ELSE ClosedPolygons(trace_polygon(ls, find_connected_lines(ls, nearest_idx)),
                        parse_hex_color(rgb))

\* editor_fill: the polygons it appends (none or one)
EditorFillPolygons(ls, x, y, rgb) == FillFromLine(ls, find_nearest_line(ls, x, y), rgb)

(***************************************************************************)
(* lib.rs : the Editor operations                                          *)
(***************************************************************************)
\* bounds of the exploration
MaxLines == 5

MaxHist == 3

MaxFills == 1

\* the lines offered to add_line: the two diagonals of the frame, a whisker of
\* length 1 at a corner, and a zero-length line
LineInputs ==
    { Line(0, 0, 10, 10), Line(10, 0, 0, 10), Line(10, 10, 11, 10), Line(3, 3, 3, 3) }

\* the corner lists offered to add_frame: a square, and a frame whose four
\* corners are one point
FrameInputs == { << 0, 0, 10, 0, 10, 10, 0, 10 >>, << 3, 3, 3, 3, 3, 3, 3, 3 >> }

\* the click points offered to the fill operations
FillOrigins == { << 5, 2 >> }

NoPre == [none |-> TRUE]

NoTrace == [status |-> "idle"]

\* what undo must bring back
Snapshot ==
    [lines |-> lines, fills |-> fills, fill_graph |-> fill_graph,
     node_degree |-> node_degree, allow_node |-> allow_node,
     effective_degree |-> effective_degree]

\* Editor::new
Init ==
    /\ lines = << >>
    /\ fills = << >>
    /\ history = << >>
    /\ fill_graph = EmptyFillGraph
    /\ node_degree = << >>
    /\ allow_node = << >>
    /\ effective_degree = << >>
    /\ graph_store = GraphStoreNew
    /\ trace = NoTrace
    /\ last_op = [op |-> "new"]
    /\ pre = NoPre

\* the fields build_fill_graph leaves behind
SetDerived(d) ==
    /\ fill_graph' = d.fill_graph
    /\ node_degree' = d.node_degree
    /\ allow_node' = d.allow_node
    /\ effective_degree' = d.effective_degree
    /\ graph_store' = d.graph_store

\* self.build_fill_graph() on the line list ls
Rebuild(ls) == SetDerived(BuildFillGraph(ls, Derived))

\* the length test of add_line
AcceptsAny(line) == TRUE

Accepts(line) ==
    ~((line.x2 - line.x1) * (line.x2 - line.x1)
      + (line.y2 - line.y1) * (line.y2 - line.y1) < 1)

add_line(line) ==
    /\ last_op' = [op |-> "add_line", line |-> line]
    /\ trace' = trace
    /\ IF Accepts(line)
       THEN /\ lines' = Append(lines, line)
            /\ history' = Append(history, [cmd |-> "Add"])
            /\ fills' = fills
            /\ Rebuild(lines')
            /\ pre' = Snapshot
       ELSE /\ UNCHANGED << lines, fills, history, fill_graph, node_degree, allow_node,
                            effective_degree, graph_store >>
            /\ pre' = NoPre

add_frame(c) ==
    /\ last_op' = [op |-> "add_frame", corners |-> c]
    /\ trace' = trace
    /\ lines' = lines \o << Line(c[1], c[2], c[3], c[4]), Line(c[3], c[4], c[5], c[6]),
                            Line(c[5], c[6], c[7], c[8]), Line(c[7], c[8], c[1], c[2]) >>
    /\ history' = Append(history, [cmd |-> "AddFrame"])
    /\ fills' = fills
    /\ Rebuild(lines')
    /\ pre' = Snapshot

clear ==
    /\ last_op' = [op |-> "clear"]
    /\ trace' = trace
    /\ lines' = << >>
    /\ fills' = << >>
    /\ history' = Append(history, [cmd |-> "Clear", lines |-> lines, fills |-> fills])
    /\ Rebuild(lines')
    /\ pre' = Snapshot

\* cleanup_overhangs from "Collect all KEPT segments as new lines" on
CleanupCommit(d, new_lines) ==
    /\ lines' = new_lines
    /\ history' = Append(history, [cmd |-> "CleanOverhangs", lines |-> lines])
    /\ SetDerived(BuildFillGraph(new_lines, d))
    /\ pre' = Snapshot

\* a trim that stores its result and pushes an undo entry whatever it found
CleanupApplyAlways(d, deleted) ==
    IF d.fill_graph.segments = << >>
    THEN /\ lines' = lines
         /\ history' = history
         /\ SetDerived(d)
         /\ pre' = NoPre
    ELSE CleanupCommit(d, KeptLines(d.fill_graph, deleted, 0))

\* cleanup_overhangs once the leaf loop has marked the deleted segments
CleanupApply(d, deleted) ==
    IF d.fill_graph.segments = << >> \/ \A k \in 1 .. Len(deleted) : ~deleted[k]
    THEN /\ lines' = lines
         /\ history' = history
         /\ SetDerived(d)
         /\ pre' = NoPre
    ELSE CleanupCommit(d, KeptLines(d.fill_graph, deleted, 0))

\* cleanup_overhangs after its first build_fill_graph
CleanupFrom(d) == CleanupApply(d, OverhangDeleted(d.fill_graph))

cleanup_overhangs ==
    /\ last_op' = [op |-> "cleanup_overhangs", of |-> pre]
    /\ trace' = trace
    /\ fills' = fills
    /\ IF lines = << >>
       THEN /\ UNCHANGED << lines, history, fill_graph, node_degree, allow_node,
                            effective_degree, graph_store >>
            /\ pre' = NoPre
       ELSE CleanupFrom(BuildFillGraph(lines, Derived))

\* the line and fill lists after history.pop() is applied
UndonePopOne(cmd) ==
    IF cmd.cmd = "AddFill"
    THEN [lines |-> lines, fills |-> SubSeq(fills, 1, Len(fills) - 1)]
    ELSE [lines |-> SubSeq(lines, 1, Len(lines) - 1), fills |-> fills]

Undone(cmd) ==
    IF cmd.cmd = "Add"
    THEN [lines |-> SubSeq(lines, 1, Len(lines) - 1), fills |-> fills]
    ELSE IF cmd.cmd = "AddFill"
    THEN [lines |-> lines, fills |-> SubSeq(fills, 1, Len(fills) - 1)]
    ELSE IF cmd.cmd = "AddFrame"
    THEN [lines |-> SubSeq(lines, 1, Len(lines) - 4), fills |-> fills]
    ELSE IF cmd.cmd = "Clear"
    THEN [lines |-> cmd.lines, fills |-> cmd.fills]
    ELSE [lines |-> cmd.lines, fills |-> fills]

\* undo after the match on history.pop()
UndoApply(u, rest) ==
    /\ lines' = u.lines
    /\ fills' = u.fills
    /\ history' = rest
    /\ Rebuild(u.lines)

undo ==
    /\ last_op' = [op |-> "undo", of |-> pre, undone |-> last_op.op]
    /\ trace' = trace
    /\ pre' = NoPre
    /\ IF history = << >>
       THEN UndoApply([lines |-> lines, fills |-> fills], history)
       ELSE UndoApply(Undone(history[Len(history)]), SubSeq(history, 1, Len(history) - 1))

\* a push that records an undo entry even when no polygon was found
PushFillsLogged(polys) ==
    /\ fills' = fills \o polys
    /\ history' = Append(history, [cmd |-> "AddFill"])
    /\ pre' = IF polys = << >> THEN NoPre ELSE Snapshot

\* a push that stores the found polygon twice
PushFillsTwice(polys) ==
    /\ fills' = fills \o polys \o polys
    /\ history' = IF polys = << >> THEN history
                  ELSE Append(history, [cmd |-> "AddFill"])
    /\ pre' = IF polys = << >> THEN NoPre ELSE Snapshot

\* the polygon a fill operation found is pushed with its undo entry
PushFills(polys) ==
    /\ fills' = fills \o polys
    /\ history' = IF polys = << >> THEN history
                  ELSE Append(history, [cmd |-> "AddFill"])
    /\ pre' = IF polys = << >> THEN NoPre ELSE Snapshot

\* fill_debug_at after its build_fill_graph
FillDebugFrom(d, ox, oy, tie_first) ==
    /\ SetDerived(d)
    /\ PushFills(FillDebugPolygons(d, ox, oy, tie_first))

fill_debug_at(ox, oy, tie_first) ==
    /\ last_op' = [op |-> "fill_debug_at", ox |-> ox, oy |-> oy]
    /\ trace' = trace
    /\ lines' = lines
    /\ FillDebugFrom(BuildFillGraph(lines, Derived), ox, oy, tie_first)

editor_fill(x, y, rgb) ==
    /\ last_op' = [op |-> "editor_fill", ox |-> x, oy |-> y]
    /\ trace' = trace
    /\ UNCHANGED << lines, fill_graph, node_degree, allow_node, effective_degree,
                    graph_store >>
    /\ PushFills(EditorFillPolygons(lines, x, y, rgb))

\* the exploration stops growing a list that has reached its bound
LinesRoom(n) == Len(lines) + n <= MaxLines

HistoryRoom == Len(history) < MaxHist

FillsRoom == Len(fills) < MaxFills

Next ==
    \/ \E line \in LineInputs : LinesRoom(1) /\ HistoryRoom /\ add_line(line)
    \/ \E c \in FrameInputs : LinesRoom(4) /\ HistoryRoom /\ add_frame(c)
    \/ HistoryRoom /\ clear
    \/ HistoryRoom /\ cleanup_overhangs
    \/ undo
    \/ \E o \in FillOrigins, tie_first \in BOOLEAN :
           HistoryRoom /\ FillsRoom /\ fill_debug_at(o[1], o[2], tie_first)
    \/ \E o \in FillOrigins :
           HistoryRoom /\ FillsRoom /\ editor_fill(o[1], o[2], DEFAULT_RGB)

Spec == Init /\ [][Next]_vars

(***************************************************************************)
(* Properties of the editor                                                *)
(***************************************************************************)
\* the segments at node n whose other end lies in S
SegmentsInto(g, n, S) ==
    {k \in Ids(g.segments) :
        \/ At(g.segments, k).a = n /\ At(g.segments, k).b \in S
        \/ At(g.segments, k).b = n /\ At(g.segments, k).a \in S}

\* the 2-core: the largest node set in which every node keeps two segments
RECURSIVE TwoCore(_, _)
TwoCore(g, S) ==
    IF \A n \in S : Cardinality(SegmentsInto(g, n, S)) >= 2 THEN S
    ELSE TwoCore(g, {n \in S : Cardinality(SegmentsInto(g, n, S)) >= 2})

\* C2: once build_fill_graph has finished its leaf stripping, every node that
\* is still allowed has an effective degree of at least 2
C2_AllowedHasDegreeTwo ==
    \A n \in Ids(allow_node) : At(allow_node, n) => At(effective_degree, n) >= 2

\* leaf stripping has pruned a node and kept another, and a kept node lost a
\* segment to the pruning
C2_Witness ==
    /\ lines # << >>
    /\ \E n \in Ids(allow_node) : ~At(allow_node, n)
    /\ \E n \in Ids(allow_node) :
           /\ At(allow_node, n)
           /\ At(effective_degree, n) < At(node_degree, n)

\* C3: the allowed mask build_fill_graph computes is exactly the 2-core of
\* the arrangement (parallel segments counted one by one), and the effective
\* degree of an allowed node is the number of its segments whose other end is
\* allowed
C3_AllowedIsTwoCore ==
    lines # << >> =>
        /\ Len(allow_node) = Len(fill_graph.nodes)
        /\ Len(effective_degree) = Len(fill_graph.nodes)
        /\ \A n \in Ids(fill_graph.nodes) :
               At(allow_node, n) <=> n \in TwoCore(fill_graph, Ids(fill_graph.nodes))
        /\ \A n \in Ids(fill_graph.nodes) :
               At(allow_node, n) =>
                   At(effective_degree, n) =
                       Cardinality(SegmentsInto(fill_graph, n,
                                       {m \in Ids(fill_graph.nodes) : At(allow_node, m)}))

\* the stripping cascaded: a node with two or more segments was pruned
C3_Witness ==
    /\ lines # << >>
    /\ \E n \in Ids(fill_graph.nodes) : At(node_degree, n) >= 2 /\ ~At(allow_node, n)

\* C5: a recorded mutation followed at once by undo leaves the line list and
\* the fill list as they were before the mutation
C5_UndoRestoresLinesAndFills ==
    (last_op.op = "undo" /\ last_op.of # NoPre) =>
        /\ lines = last_op.of.lines
        /\ fills = last_op.of.fills

\* an overhang trim that changed the lines has just been undone
C5_Witness ==
    /\ last_op.op = "undo"
    /\ last_op.of # NoPre
    /\ last_op.undone = "cleanup_overhangs"
    /\ lines # << >>

\* C6: a recorded mutation followed at once by undo leaves the fill graph and
\* the node_degree, allow_node and effective_degree arrays as they were before
\* the mutation, whatever the state before the mutation was
C6_UndoRestoresArrangement ==
    (last_op.op = "undo" /\ last_op.of # NoPre) =>
        /\ fill_graph = last_op.of.fill_graph
        /\ node_degree = last_op.of.node_degree
        /\ allow_node = last_op.of.allow_node
        /\ effective_degree = last_op.of.effective_degree

\* C7: after every mutation of the line set the stored fill graph is the one
\* built from the current line list alone
C7_GraphIsFromScratch ==
    last_op.op \in {"add_line", "add_frame", "undo", "clear", "cleanup_overhangs"} =>
        fill_graph = IF lines = << >> THEN EmptyFillGraph ELSE BuildArrangement(lines)

\* the line list was emptied by clear and refilled by undo, with a shorter
\* list in between
C7_Witness ==
    /\ last_op.op = "undo"
    /\ last_op.undone = "clear"
    /\ Len(lines) >= 4
    /\ fill_graph.segments # << >>

\* C8: right after clear() the graph store holds no node, no edge and no DSU
\* set
C8_ClearResetsStore ==
    last_op.op = "clear" =>
        /\ graph_store.nodes = << >>
        /\ graph_store.edges = << >>
        /\ graph_store.dsu.parent = << >>

\* C9: after every public operation node_degree, allow_node and
\* effective_degree have one entry per node of the fill graph and hold its
\* degrees and its leaf-stripping result
C9_PruningMatchesGraph ==
    /\ Len(node_degree) = Len(fill_graph.nodes)
    /\ Len(allow_node) = Len(fill_graph.nodes)
    /\ Len(effective_degree) = Len(fill_graph.nodes)
    /\ node_degree = ComputeNodeDegree(fill_graph)
    /\ allow_node = LeafStrip(fill_graph).allow
    /\ effective_degree = LeafStrip(fill_graph).eff

\* C10: add_line with a squared length below 1 changes neither the lines, the
\* fills nor the history; every other add_line appends its line and one undo
\* entry
C10_AddLineRejectsShort ==
    [][last_op'.op = "add_line" =>
          IF distance_sq(last_op'.line.x1, last_op'.line.y1,
                         last_op'.line.x2, last_op'.line.y2) < 1
          THEN lines' = lines /\ fills' = fills /\ history' = history
          ELSE /\ lines' = Append(lines, last_op'.line)
               /\ Len(history') = Len(history) + 1
               /\ SubSeq(history', 1, Len(history)) = history
               /\ fills' = fills]_vars

\* a zero-length line was offered to an editor that holds lines
C10_Witness ==
    /\ last_op.op = "add_line"
    /\ distance_sq(last_op.line.x1, last_op.line.y1, last_op.line.x2, last_op.line.y2) < 1
    /\ lines # << >>
    /\ history # << >>

(***************************************************************************)
(* A GraphStore on its own: any sequence of add_segment and clear calls    *)
(***************************************************************************)
MaxSegs == 4

\* the end points offered to add_segment; (1,0) and (2,0) snap to one node
StorePoints == << Pt(0, 0), Pt(1, 0), Pt(2, 0), Pt(4, 0), Pt(0, 4) >>

EditorIdle ==
    /\ lines = << >>
    /\ fills = << >>
    /\ history = << >>
    /\ fill_graph = EmptyFillGraph
    /\ node_degree = << >>
    /\ allow_node = << >>
    /\ effective_degree = << >>
    /\ trace = NoTrace
    /\ pre = NoPre

\* GraphStore::new
InitStore ==
    /\ EditorIdle
    /\ graph_store = GraphStoreNew
    /\ last_op = [op |-> "new"]

StoreAddSegment(a, b) ==
    /\ Len(graph_store.edges) < MaxSegs
    /\ graph_store' = GraphStoreAddSegment(graph_store, a.x, a.y, b.x, b.y,
                                           Len(graph_store.edges))
    /\ last_op' = [op |-> "add_segment", a |-> a, b |-> b]
    /\ UNCHANGED << lines, fills, history, fill_graph, node_degree, allow_node,
                    effective_degree, trace, pre >>

StoreClear ==
    /\ graph_store' = GraphStoreClear(graph_store)
    /\ last_op' = [op |-> "store_clear"]
    /\ UNCHANGED << lines, fills, history, fill_graph, node_degree, allow_node,
                    effective_degree, trace, pre >>

StorePairs ==
    { p \in (1 .. Len(StorePoints)) \X (1 .. Len(StorePoints)) : p[1] < p[2] }

NextStore ==
    \/ \E p \in StorePairs : StoreAddSegment(StorePoints[p[1]], StorePoints[p[2]])
    \/ StoreClear

SpecStore == InitStore /\ [][NextStore]_vars

(***************************************************************************)
(* Properties of the stand-alone GraphStore                                *)
(***************************************************************************)
\* the nodes joined to a node of S by an edge, added to S, k times over
RECURSIVE ComponentOf(_, _, _)
ComponentOf(gs, S, k) ==
    IF k = 0 THEN S
    ELSE ComponentOf(gs,
             S \cup {gs.edges[e].b : e \in {e \in 1 .. Len(gs.edges) : gs.edges[e].a \in S}}
               \cup {gs.edges[e].a : e \in {e \in 1 .. Len(gs.edges) : gs.edges[e].b \in S}},
             k - 1)

\* the number of segment ends at node n
EndsAt(gs, n) ==
    Cardinality({e \in 1 .. Len(gs.edges) : gs.edges[e].a = n})
    + Cardinality({e \in 1 .. Len(gs.edges) : gs.edges[e].b = n})

\* C1: after any sequence of add_segment calls from new() or clear(), the
\* odd_count tracked at every DSU root equals the number of odd-degree nodes
\* in the connected component of that root, segments snapping to one node and
\* segments merging two components included
C1_OddCountMatchesComponent ==
    \A r \in Ids(graph_store.nodes) :
        At(graph_store.dsu.parent, r) = r =>
            At(graph_store.dsu.odd_count, r) =
                Cardinality({n \in ComponentOf(graph_store, {r}, Len(graph_store.nodes)) :
                                 EndsAt(graph_store, n) % 2 = 1})

\* a store in which a segment snapped to one node and a later segment merged
\* two components into one of three nodes, two of them odd
C1_Witness ==
    /\ last_op.op = "add_segment"
    /\ \E e \in 1 .. Len(graph_store.edges) : graph_store.edges[e].a = graph_store.edges[e].b
    /\ \E r \in Ids(graph_store.nodes) :
           /\ At(graph_store.dsu.parent, r) = r
           /\ At(graph_store.dsu.size, r) >= 3
           /\ At(graph_store.dsu.odd_count, r) = 2

(***************************************************************************)
(* trace_face_side run one loop iteration at a time on the arrangement of  *)
(* a line list the editor accepts                                          *)
(***************************************************************************)
\* a frame; a frame with a diagonal; a frame with a whisker; two doubled
\* lines side by side (parallel segments, gap bridging); a single line; a
\* frame with a doubled whisker (a node the walk enters twice and leaves by a
\* gap bridge)
TraceConfigs ==
    { << Line(0, 0, 10, 0), Line(10, 0, 10, 10), Line(10, 10, 0, 10), Line(0, 10, 0, 0) >>,
      << Line(0, 0, 10, 0), Line(10, 0, 10, 10), Line(10, 10, 0, 10), Line(0, 10, 0, 0),
         Line(0, 0, 10, 10) >>,
      << Line(0, 0, 10, 0), Line(10, 0, 10, 10), Line(10, 10, 0, 10), Line(0, 10, 0, 0),
         Line(10, 10, 11, 10) >>,
      << Line(0, 0, 10, 0), Line(0, 0, 10, 0), Line(0, 5, 10, 5), Line(0, 5, 10, 5) >>,
      << Line(0, 0, 10, 10) >>,
      << Line(0, 0, 10, 0), Line(10, 0, 10, 10), Line(10, 10, 0, 10), Line(0, 10, 0, 0),
         Line(10, 10, 11, 10), Line(10, 10, 11, 10) >> }

\* the gap radii offered to the walk
TraceRadii == { 0, GAP_RADIUS }

\* the origin handed to the walk
TraceOrigin == << 5, 2 >>

\* the editor after the lines ls were added to a new editor
InitTraceOn(ls) ==
    /\ lines = ls
    /\ fills = << >>
    /\ history = [k \in 1 .. Len(ls) |-> [cmd |-> "Add"]]
    /\ fill_graph = BuildFillGraph(ls, [fill_graph |-> EmptyFillGraph, node_degree |-> << >>,
                                        allow_node |-> << >>, effective_degree |-> << >>,
                                        graph_store |-> GraphStoreNew]).fill_graph
    /\ node_degree = ComputeNodeDegree(fill_graph)
    /\ allow_node = LeafStrip(fill_graph).allow
    /\ effective_degree = LeafStrip(fill_graph).eff
    /\ graph_store = StoreAddLines(ls, 1, GraphStoreNew)
    /\ trace = NoTrace
    /\ last_op = [op |-> "new"]
    /\ pre = NoPre

InitTrace == \E ls \in TraceConfigs : InitTraceOn(ls)

\* the call: a segment of the arrangement walked in one of its two
\* directions, or a start node outside the arrangement
TraceBegin(start_from, start_to, side_rule, gap_radius) ==
    /\ trace.status = "idle"
    /\ trace' = TraceStart(TraceEnv, start_from, start_to, side_rule,
                           TraceOrigin[1], TraceOrigin[2], gap_radius)
    /\ last_op' = [op |-> "trace_begin"]
    /\ UNCHANGED << lines, fills, history, fill_graph, node_degree, allow_node,
                    effective_degree, graph_store, pre >>

\* one iteration of the loop
TraceStepAct ==
    /\ trace.status = "running"
    /\ \E usable \in {UsableCandidates(TraceEnv, trace)} :
           trace' = TraceIterate(TraceEnv, trace, usable)
    /\ last_op' = [op |-> "trace_step"]
    /\ UNCHANGED << lines, fills, history, fill_graph, node_degree, allow_node,
                    effective_degree, graph_store, pre >>

\* the caller drops the result
TraceReturn ==
    /\ trace.status \notin {"idle", "running"}
    /\ trace' = NoTrace
    /\ last_op' = [op |-> "trace_return"]
    /\ UNCHANGED << lines, fills, history, fill_graph, node_degree, allow_node,
                    effective_degree, graph_store, pre >>

TraceSeeds ==
    { << At(fill_graph.segments, i).a, At(fill_graph.segments, i).b >> :
          i \in Ids(fill_graph.segments) }
    \cup { << At(fill_graph.segments, i).b, At(fill_graph.segments, i).a >> :
          i \in Ids(fill_graph.segments) }
    \cup { << Len(fill_graph.nodes), 0 >> }

NextTrace ==
    \/ \E seed \in TraceSeeds, side_rule \in {"KeepLeft", "KeepRight"},
          gap_radius \in TraceRadii :
           TraceBegin(seed[1], seed[2], side_rule, gap_radius)
    \/ TraceStepAct
    \/ TraceReturn

\* the loop of trace_face_side runs on: no iteration waits for anything
SpecTraceFair == InitTrace /\ [][NextTrace]_vars /\ WF_vars(TraceStepAct)

MaxSceneFills == 1

\* the drawings: the closed square of side 10, a single open line, the
\* square of side 18 with both diagonals, the square of side 10 with a whisker
\* at a corner, the square of side 18 with a dangling chain of two lines, an
\* open chain of three lines, the square of side 18 with a diagonal and a
\* vertical line that sticks out on both sides, a 10 by 5 rectangle, and the
\* square of side 10 with a line from the middle of one side to the middle of
\* the opposite side
SceneConfigs ==
    { << Line(0, 0, 10, 0), Line(10, 0, 10, 10), Line(10, 10, 0, 10), Line(0, 10, 0, 0) >>,
      << Line(0, 0, 10, 10) >>,
      << Line(0, 0, 18, 0), Line(18, 0, 18, 18), Line(18, 18, 0, 18), Line(0, 18, 0, 0),
         Line(0, 0, 18, 18), Line(18, 0, 0, 18) >>,
      << Line(0, 0, 10, 0), Line(10, 0, 10, 10), Line(10, 10, 0, 10), Line(0, 10, 0, 0),
         Line(10, 10, 11, 10) >>,
      << Line(0, 0, 18, 0), Line(18, 0, 18, 18), Line(18, 18, 0, 18), Line(0, 18, 0, 0),
         Line(0, 0, 6, 6), Line(6, 6, 9, 6) >>,
      << Line(0, 0, 10, 0), Line(10, 0, 10, 10), Line(10, 10, 0, 10) >>,
      << Line(0, 0, 18, 0), Line(18, 0, 18, 18), Line(18, 18, 0, 18), Line(0, 18, 0, 0),
         Line(0, 0, 18, 18), Line(9, -2, 9, 20) >>,
      << Line(0, 0, 10, 0), Line(10, 0, 10, 5), Line(10, 5, 0, 5), Line(0, 5, 0, 0) >>,
      << Line(0, 0, 10, 0), Line(10, 0, 10, 10), Line(10, 10, 0, 10), Line(0, 10, 0, 0),
         Line(5, 0, 5, 10) >> }

\* the click points: inside the squares, the centroids of the four triangles
\* the diagonals cut from the square of side 18, a corner, and a far point
SceneOrigins ==
    { << 5, 5 >>, << 5, 2 >>, << 5, 4 >>, << 9, 3 >>, << 15, 9 >>, << 9, 15 >>, << 3, 9 >>,
      << 0, 0 >>, << 30, 30 >> }

InitScene == \E ls \in SceneConfigs : InitTraceOn(ls)

SceneFillsRoom == Len(fills) < MaxSceneFills

NextScene ==
    \/ \E o \in SceneOrigins, tie_first \in BOOLEAN :
           SceneFillsRoom /\ fill_debug_at(o[1], o[2], tie_first)
    \/ \E o \in SceneOrigins : SceneFillsRoom /\ editor_fill(o[1], o[2], DEFAULT_RGB)
    \/ cleanup_overhangs
    \/ undo

SpecScene == InitScene /\ [][NextScene]_vars

(***************************************************************************)
(* Properties of trimming and filling                                      *)
(***************************************************************************)
\* segment k of g as a line from its node a to its node b
SegmentLine(g, k) ==
    Line(At(g.nodes, At(g.segments, k).a).x, At(g.nodes, At(g.segments, k).a).y,
         At(g.nodes, At(g.segments, k).b).x, At(g.nodes, At(g.segments, k).b).y)

\* the segments of g with both ends in the node set core, in segment order
SegmentsWithin(g, core) ==
    LET all == [k \in 1 .. Len(g.segments) |-> k - 1]
        kept == SelectSeq(all, LAMBDA k : /\ At(g.segments, k).a \in core
                                          /\ At(g.segments, k).b \in core)
    IN  [i \in 1 .. Len(kept) |-> SegmentLine(g, kept[i])]

\* the segments that survive repeated removal of the segments at nodes of
\* degree <= 1: those inside the 2-core
SurvivingSegments(g) == SegmentsWithin(g, TwoCore(g, Ids(g.nodes)))

SegmentLineSet(g) == { SegmentLine(g, k) : k \in Ids(g.segments) }

NoLeafNode(g) == \A n \in Ids(g.nodes) : Len(At(g.node_sectors, n)) >= 2

\* the line list new_lines and the arrangement new_g are what trimming leaves
\* of a drawing with line list old_lines, arrangement g and survivors surv
TrimmedTo(old_lines, g, surv, new_lines, new_g) ==
    /\ new_lines = IF Len(surv) < Len(g.segments) THEN surv ELSE old_lines
    /\ SegmentLineSet(new_g) = { surv[i] : i \in 1 .. Len(surv) }
    /\ NoLeafNode(new_g)

TrimmedFrom(old_lines, g, new_lines, new_g) ==
    TrimmedTo(old_lines, g, SurvivingSegments(g), new_lines, new_g)

SameFillAt(d, d2, o) ==
    \A t1, t2 \in BOOLEAN :
        LET before == FillDebugPolygons(d, o[1], o[2], t1)
            after == FillDebugPolygons(d2, o[1], o[2], t2)
        IN  /\ Len(before) = Len(after)
            /\ before # << >> => { before[1].points[k] : k \in 1 .. Len(before[1].points) }
                                 = { after[1].points[k] : k \in 1 .. Len(after[1].points) }

\* C12: a cleanup_overhangs that removes dangling lines does not change the
\* result of fill_debug_at at any origin: a polygon is appended after the
\* trimming iff one is appended before it, with the same vertices
C12_TrimKeepsFill ==
    [][last_op'.op = "cleanup_overhangs" /\ pre' # NoPre
       => \A o \in SceneOrigins :
              SameFillAt(BuildFillGraph(lines, Derived), BuildFillGraph(lines', Derived'), o)]_vars

\* the closed square of side 10, as four lines
Square10 ==
    << Line(0, 0, 10, 0), Line(10, 0, 10, 10), Line(10, 10, 0, 10), Line(0, 10, 0, 0) >>

\* the fill operation op has just run at (x, y)
JustFilled(op, x, y) == last_op.op = op /\ last_op.ox = x /\ last_op.oy = y

\* the last operation appended exactly the polygon at the end of the fill list
AppendedOne == pre # NoPre /\ Len(fills) = Len(pre.fills) + 1
               /\ SubSeq(fills, 1, Len(pre.fills)) = pre.fills

\* the ring is the four corners of Square10 and the closing repeat of the first
IsSquare10Ring(ring) ==
    /\ Len(ring) = 5
    /\ ring[5] = ring[1]
    /\ { ring[k] : k \in 1 .. 4 } = { << 0, 0 >>, << 10, 0 >>, << 10, 10 >>, << 0, 10 >> }

\* C13: on the four lines of the closed square (0,0)-(10,0)-(10,10)-(0,10), a
\* fill at the interior point (5,5) appends exactly one polygon; its ring has
\* 5 points, the 4 corners and the closing repeat of the first, and its area
\* is 100
C13_SquareFill ==
    JustFilled("fill_debug_at", 5, 5) /\ lines = Square10
    => /\ AppendedOne
       /\ IsSquare10Ring(fills[Len(fills)].points)
       /\ Abs(signed_area_2x(fills[Len(fills)].points)) = 2 * 100

\* the square has just been filled at (5,5)
C13_Witness ==
    /\ JustFilled("fill_debug_at", 5, 5)
    /\ lines = Square10
    /\ Len(history) = 5
    /\ Len(fills) = 1

\* the arrangement has no cycle: its 2-core is empty
Acyclic(g) == TwoCore(g, Ids(g.nodes)) = {}

\* C14: when the arrangement contains no cycle, so that the 2-core pruning
\* strips every node (a single open line, an open chain), fill_debug_at
\* appends no polygon, whatever the origin
C14_NoCycleNoFill ==
    [][last_op'.op = "fill_debug_at" /\ Acyclic(fill_graph') => fills' = fills]_vars

\* a fill was tried on the open chain of three lines, whose middle segment is
\* a seed candidate, and nothing was appended
C14_Witness ==
    /\ last_op.op = "fill_debug_at"
    /\ Len(lines) = 3
    /\ Acyclic(fill_graph)
    /\ SeedCandidates(fill_graph) # {}
    /\ fills = << >>

\* the closed square of side 18 with both diagonals, which cross at (9,9)
SquareDiag18 ==
    << Line(0, 0, 18, 0), Line(18, 0, 18, 18), Line(18, 18, 0, 18), Line(0, 18, 0, 0),
       Line(0, 0, 18, 18), Line(18, 0, 0, 18) >>

\* the four triangular faces: centroid and corners (each of area 81)
Triangles18 ==
    { [c |-> << 9, 3 >>,  ring |-> { << 0, 0 >>, << 18, 0 >>, << 9, 9 >> }],
      [c |-> << 15, 9 >>, ring |-> { << 18, 0 >>, << 18, 18 >>, << 9, 9 >> }],
      [c |-> << 9, 15 >>, ring |-> { << 18, 18 >>, << 0, 18 >>, << 9, 9 >> }],
      [c |-> << 3, 9 >>,  ring |-> { << 0, 18 >>, << 0, 0 >>, << 9, 9 >> }] }

PointsOf(poly) == { poly.points[k] : k \in 1 .. Len(poly.points) }

\* C15: on the closed square with both diagonals, a fill at the centroid of
\* each of the four triangles appends that triangle's ring; the four polygons
\* are pairwise distinct and each has an area smaller than the square's
C15_TriangleFills ==
    \A t \in Triangles18 :
        JustFilled("fill_debug_at", t.c[1], t.c[2]) /\ lines = SquareDiag18
        => /\ AppendedOne
           /\ PointsOf(fills[Len(fills)]) = t.ring
           /\ Abs(signed_area_2x(fills[Len(fills)].points)) < 2 * 18 * 18

\* the ring a trace result is stored as
ClosedRing(points) ==
    IF points[1] # points[Len(points)] THEN Append(points, points[1]) ELSE points

\* the ray from pt to the right crosses the edge p0 -> p1 (even-odd rule)
CrossesRay(pt, p0, p1) ==
    /\ (p0[2] > pt[2]) # (p1[2] > pt[2])
    /\ LET lhs == (pt[1] - p0[1]) * (p1[2] - p0[2])
           rhs == (p1[1] - p0[1]) * (pt[2] - p0[2])
       IN  IF p1[2] > p0[2] THEN lhs < rhs ELSE lhs > rhs

\* pt is inside the closed ring by the even-odd rule, a vertex not counting
EvenOddInside(pt, ring) ==
    /\ \A k \in 1 .. Len(ring) : ring[k] # pt
    /\ Cardinality({k \in 1 .. Len(ring) - 1 : CrossesRay(pt, ring[k], ring[k + 1])}) % 2 = 1

\* the two results of the dual trace at (ox, oy) on the present arrangement
TracesAt(ox, oy) == DualTrace(TraceEnv, ox, oy)

\* C16: a polygon appended by fill_debug_at comes from a closed trace of at
\* least 3 points whose unsigned shoelace area is above MIN_AREA and which has
\* the fill origin inside by the even-odd test, an origin on a ring vertex
\* counting as outside; no other candidate is persisted
C16_AppendedIsValid ==
    last_op.op = "fill_debug_at" /\ pre # NoPre
    => /\ AppendedOne
       /\ \E r \in { TracesAt(last_op.ox, last_op.oy)[k] : k \in 1 .. 2 } :
              /\ r.closed
              /\ Len(r.points) >= 3
              /\ fills[Len(fills)].points = ClosedRing(r.points)
       /\ Abs(signed_area_2x(fills[Len(fills)].points)) > 2 * MIN_AREA
       /\ EvenOddInside(<< last_op.ox, last_op.oy >>, fills[Len(fills)].points)

\* a polygon was appended by a fill of the square with diagonals at (15,9),
\* both traces being closed
C16_Witness ==
    /\ JustFilled("fill_debug_at", 15, 9)
    /\ pre # NoPre
    /\ lines = SquareDiag18
    /\ TracesAt(15, 9)[1].closed
    /\ TracesAt(15, 9)[2].closed

\* the validation of a trace result, on the ring it would be stored as
ValidCandidate(r, o) ==
    /\ r.closed
    /\ Len(r.points) >= 3
    /\ Abs(signed_area_2x(r.points)) > 2 * MIN_AREA
    /\ EvenOddInside(o, ClosedRing(r.points))

\* fs2 is fs after a fill at o whose two traces are rs: nothing is appended
\* when no trace is valid, else the ring of a valid trace of least area
FillOutcome(fs, fs2, rs, o, valid) ==
    IF valid = {} THEN fs2 = fs
    ELSE \E k \in valid :
             /\ fs2 = Append(fs, Polygon(ClosedRing(rs[k].points), FILL_COLOR))
             /\ \A j \in valid :
                    Abs(signed_area_2x(rs[k].points)) <= Abs(signed_area_2x(rs[j].points))

FillOutcomeOf(fs, fs2, rs, o) ==
    FillOutcome(fs, fs2, rs, o, {k \in 1 .. 2 : ValidCandidate(rs[k], o)})

\* C17: fill_debug_at appends at most one polygon per call: none when no
\* candidate is valid, the valid candidate when there is exactly one, and the
\* candidate of smaller area when both directional traces are valid
C17_AtMostOneSmallest ==
    [][last_op'.op = "fill_debug_at"
       => IF fill_graph'.segments = << >> \/ SeedCandidates(fill_graph') = {}
          THEN fills' = fills
          ELSE FillOutcomeOf(fills, fills',
                             DualTrace(TraceEnv', last_op'.ox, last_op'.oy),
                             << last_op'.ox, last_op'.oy >>)]_vars

\* a fill at (9,3) on the square with a diagonal and a vertical line: both
\* traces are valid, their areas differ, and one polygon was appended
C17_Witness ==
    /\ JustFilled("fill_debug_at", 9, 3)
    /\ Len(lines) = 6
    /\ lines[6] = Line(9, -2, 9, 20)
    /\ pre # NoPre
    /\ ValidCandidate(TracesAt(9, 3)[1], << 9, 3 >>)
    /\ ValidCandidate(TracesAt(9, 3)[2], << 9, 3 >>)
    /\ Abs(signed_area_2x(TracesAt(9, 3)[1].points))
       # Abs(signed_area_2x(TracesAt(9, 3)[2].points))

\* C18: in every reachable state every polygon of the fill list is a closed
\* ring, its first point equal to its last, whether fill_debug_at or
\* editor_fill appended it
C18_FillsAreClosedRings ==
    \A i \in 1 .. Len(fills) :
        /\ Len(fills[i].points) >= 3
        /\ fills[i].points[1] = fills[i].points[Len(fills[i].points)]

\* fs2 is fs with the polygons polys of the dual-trace selector appended, the
\* colour, the first point and the direction of the ring left open
AppendsRingsOf(fs, fs2, polys) ==
    /\ Len(fs2) = Len(fs) + Len(polys)
    /\ SubSeq(fs2, 1, Len(fs)) = fs
    /\ polys # << >> => PointsOf(fs2[Len(fs2)]) = PointsOf(polys[1])

\* C19: editor_fill(x, y, color) runs the dual-trace selector: it appends a
\* polygon exactly when fill_debug_at finds a valid face around (x, y) on the
\* same lines, and the polygon has that face's ring
C19_EditorFillIsSelector ==
    [][last_op'.op = "editor_fill"
       => \E tie_first \in BOOLEAN :
              AppendsRingsOf(fills, fills',
                  FillDebugPolygons(BuildFillGraph(lines, Derived),
                                    last_op'.ox, last_op'.oy, tie_first))]_vars

\* the command an undo is about to pop has the given kind
UndoOf(kind) ==
    /\ last_op'.op = "undo"
    /\ history # << >>
    /\ history[Len(history)].cmd = kind

\* C20: add_line, add_frame and cleanup_overhangs leave the fill list
\* unchanged; the list grows only through a fill operation, by exactly one
\* polygon put at its end, or through the undo of a clear, and it shrinks only
\* through the undo of a fill or through clear
C20_FillListChanges ==
    [][/\ last_op'.op \in { "add_line", "add_frame", "cleanup_overhangs" }
          => fills' = fills
       /\ Len(fills') > Len(fills)
          => \/ /\ last_op'.op \in { "fill_debug_at", "editor_fill" }
                /\ Len(fills') = Len(fills) + 1
                /\ SubSeq(fills', 1, Len(fills)) = fills
             \/ UndoOf("Clear")
       /\ Len(fills') < Len(fills)
          => \/ UndoOf("AddFill")
             \/ last_op'.op = "clear"]_vars

\* a clear that emptied a fill list holding a polygon has just been undone and
\* the polygon is back
C20_Witness ==
    /\ last_op.op = "undo"
    /\ last_op.undone = "clear"
    /\ last_op.of # NoPre
    /\ last_op.of.fills # << >>
    /\ fills = last_op.of.fills

\* a fill at o on the present arrangement finds no valid candidate: there is
\* no segment, no eligible seed segment, or neither trace passes validation
NoValidCandidate(e, o) ==
    \/ e.g.segments = << >>
    \/ SeedCandidates(e.g) = {}
    \/ \A k \in 1 .. 2 : ~ValidCandidate(DualTrace(e, o[1], o[2])[k], o)

NoValidCandidateAt(o) == NoValidCandidate(TraceEnv, o)

\* C21: when fill_debug_at finds no valid candidate (no eligible seed segment,
\* both traces fail, or validation rejects both rings), the line list, the
\* fill list and the undo history are exactly as they were before the call
C21_FailedFillKeepsState ==
    [][last_op'.op = "fill_debug_at" /\ NoValidCandidate(TraceEnv', << last_op'.ox, last_op'.oy >>)
       => lines' = lines /\ fills' = fills /\ history' = history]_vars

\* a fill at (5,2) in the 10 by 5 rectangle: both traces close, validation
\* rejects both rings for their area, and nothing was appended
C21_Witness ==
    /\ JustFilled("fill_debug_at", 5, 2)
    /\ lines = << Line(0, 0, 10, 0), Line(10, 0, 10, 5), Line(10, 5, 0, 5), Line(0, 5, 0, 0) >>
    /\ TracesAt(5, 2)[1].closed
    /\ TracesAt(5, 2)[2].closed
    /\ NoValidCandidateAt(<< 5, 2 >>)
    /\ fills = << >>

\* both ends of segment s of g have degree >= 2
SeedEndsHaveDegreeTwo(g, s) ==
    /\ SegmentDegree(g)[At(g.segments, s).a + 1] >= 2
    /\ SegmentDegree(g)[At(g.segments, s).b + 1] >= 2

\* segment s of g is one that the leaf stripping of cleanup_overhangs removes
StrippedSegment(g, s) == At(OverhangDeleted(g), s)

\* C23: the seed segment chosen by fill_debug_at is never a dangling edge:
\* both of its ends have degree >= 2 and it is not a segment that the leaf
\* stripping of cleanup_overhangs would remove
C23_SeedNeverDangling ==
    last_op.op = "fill_debug_at" /\ SeedCandidates(fill_graph) # {}
    => \E s \in {BestSeed(fill_graph, last_op.ox, last_op.oy)} :
           /\ SeedEndsHaveDegreeTwo(fill_graph, s)
           /\ ~StrippedSegment(fill_graph, s)

\* the nodes the gap-bridging step may jump to from the current node: allowed,
\* of effective degree >= 2, neither cur nor prev, within gap_radius, the
\* virtual transition to them not yet visited
EligibleGapNodes(e, tr) ==
    {n \in Ids(e.g.nodes) :
        /\ n # tr.cur_node /\ n # tr.prev_node
        /\ n < Len(e.eff) /\ At(e.eff, n) >= 2
        /\ AllowOrTrue(e, n)
        /\ Dist2To(e, tr, n) <= tr.gap_r2
        /\ ~edge_visited(tr.visited_edges, EdgeKey(tr.cur_node, n, -1, TRUE))}

\* the eligible nodes at the least distance found among the eligible nodes
NearestEligible(e, tr, eligible) ==
    {n \in eligible : \A m \in eligible : Dist2To(e, tr, n) <= Dist2To(e, tr, m)}

\* the current node has no admissible real candidate
NoRealCandidate(e, tr) ==
    \/ tr.cur_node >= Len(e.g.outgoing)
    \/ RealCandidates(e, tr, At(e.g.outgoing, tr.cur_node), 1) = << >>

\* the step of the walk tr offers exactly the nearest eligible nodes as
\* virtual candidates and, when there is one, does not end in DeadEnd
GapStepOffersNearest(e, tr, usable, tr2) ==
    /\ { usable[k].next : k \in 1 .. Len(usable) }
       = NearestEligible(e, tr, EligibleGapNodes(e, tr))
    /\ \A k \in 1 .. Len(usable) : usable[k].is_virtual
    /\ EligibleGapNodes(e, tr) # {} => tr2.status # "DeadEnd"

\* the nodes within reach of the gap-bridging step: allowed, of effective
\* degree >= 2, neither cur nor prev, within gap_radius
InRangeGapNodes(e, tr) ==
    {n \in Ids(e.g.nodes) :
        /\ n # tr.cur_node /\ n # tr.prev_node
        /\ n < Len(e.eff) /\ At(e.eff, n) >= 2
        /\ AllowOrTrue(e, n)
        /\ Dist2To(e, tr, n) <= tr.gap_r2}

\* the nodes at the least distance found among the nodes within reach whose
\* virtual transition is not yet visited
NearestInRangeUnvisited(e, tr, in_range) ==
    {n \in in_range :
        /\ \A m \in in_range : Dist2To(e, tr, n) <= Dist2To(e, tr, m)
        /\ ~edge_visited(tr.visited_edges, EdgeKey(tr.cur_node, n, -1, TRUE))}

\* the step of the walk tr offers exactly those nodes as virtual candidates
\* and ends in DeadEnd exactly when there is none
GapStepOffersInRange(e, tr, usable, tr2) ==
    /\ { usable[k].next : k \in 1 .. Len(usable) }
       = NearestInRangeUnvisited(e, tr, InRangeGapNodes(e, tr))
    /\ \A k \in 1 .. Len(usable) : usable[k].is_virtual
    /\ tr2.status = "DeadEnd" <=> NearestInRangeUnvisited(e, tr, InRangeGapNodes(e, tr)) = {}

\* C24 (as the code has it): when the current node has no admissible real
\* candidate, the gap-bridging step takes the least distance over all nodes
\* within reach, visited transition or not, and offers as virtual candidates
\* the nodes at that distance whose virtual transition is not yet visited;
\* the step ends in DeadEnd exactly when there is no such node
C24_GapOffersNearestInRange ==
    [][/\ trace.status = "running"
       /\ trace.step_idx < trace.max_steps
       /\ NoRealCandidate(TraceEnv, trace)
       => GapStepOffersInRange(TraceEnv, trace, UsableCandidates(TraceEnv, trace), trace')]_vars

\* a walk has ended in DeadEnd at a node without real candidate although a
\* node farther than the nearest one was still eligible
C24_Witness ==
    /\ trace.status = "DeadEnd"
    /\ trace.steps >= 1
    /\ NoRealCandidate(TraceEnv, trace)
    /\ EligibleGapNodes(TraceEnv, trace) # {}

\* C24: when the current node has no admissible real candidate, the
\* gap-bridging step offers as virtual candidates exactly the eligible nodes
\* at the least distance found among the eligible nodes, so that the step
\* does not end in DeadEnd when an eligible node exists
C24_GapOffersNearestEligible ==
    [][/\ trace.status = "running"
       /\ trace.step_idx < trace.max_steps
       /\ NoRealCandidate(TraceEnv, trace)
       => GapStepOffersNearest(TraceEnv, trace, UsableCandidates(TraceEnv, trace), trace')]_vars

\* the node whose point the walk appended last
LastNode(e, tr) ==
    CHOOSE n \in Ids(e.g.nodes) :
        << At(e.g.nodes, n).x, At(e.g.nodes, n).y >>
            = tr.boundary_points[Len(tr.boundary_points)]

\* the turn from the walk's direction at tr to node next satisfies the side
\* rule of the walk
TurnKeepsSide(e, tr, next) == AcceptedSide(tr.side_rule, TurnTo(e, tr, next))

\* the step from tr to tr2 chose one of the candidates usable; the choice
\* satisfies the side rule when a candidate does, and the step is no DeadEnd
SideRuleKept(e, tr, usable, tr2) ==
    /\ tr2.status # "DeadEnd"
    /\ Len(tr2.boundary_points) = Len(tr.boundary_points) + 1
    /\ LastNode(e, tr2) \in { usable[k].next : k \in 1 .. Len(usable) }
    /\ (\E k \in 1 .. Len(usable) : TurnKeepsSide(e, tr, usable[k].next))
       => TurnKeepsSide(e, tr, LastNode(e, tr2))

\* C25: at every step of a walk the chosen candidate satisfies the side rule
\* (KeepLeft: turn > eps, KeepRight: turn < -eps) whenever a candidate of the
\* step does; only when none does is the choice made among all candidates, so
\* that the side rule alone never causes a DeadEnd
C25_SideRuleWithFallback ==
    [][/\ trace.status = "running"
       /\ trace.step_idx < trace.max_steps
       /\ UsableCandidates(TraceEnv, trace) # << >>
       => SideRuleKept(TraceEnv, trace, UsableCandidates(TraceEnv, trace), trace')]_vars

\* the turn of the walk at the k-th of its points
TurnAtPoint(pts, k) ==
    turn_angle_signed(pts[k][1] - pts[k - 1][1], pts[k][2] - pts[k - 1][2],
                      pts[k + 1][1] - pts[k][1], pts[k + 1][2] - pts[k][2])

\* a walk on a frame with a fifth line has taken a step that satisfies its
\* side rule and then a step that does not, no candidate of that step
\* satisfying it
C25_Witness ==
    /\ trace.status \in {"running", "closed"}
    /\ Len(lines) = 5
    /\ \E k \in 2 .. Len(trace.boundary_points) - 2 :
           /\ AcceptedSide(trace.side_rule, TurnAtPoint(trace.boundary_points, k))
           /\ ~AcceptedSide(trace.side_rule, TurnAtPoint(trace.boundary_points, k + 1))

(***************************************************************************)
(* pick_candidate_idx as a function of the candidates it is handed         *)
(*                                                                         *)
(* abs_turn, len and mid_dist are f32 values; the comparisons of           *)
(* pick_candidate_idx hold them equal within 1e-6 (abs_turn) and 1e-4      *)
(* (len, mid_dist).  Here abs_turn is counted in units of 1e-6 and len and *)
(* mid_dist in units of 1e-4, so that keys closer than the tolerance can   *)
(* be told apart.  CandidateBetter above is the same test on the integer   *)
(* grid of the editor model, where keys within tolerance are equal.        *)
(***************************************************************************)
\* 1e-6, in units of 1e-6
PickTurnTol == 1

\* 1e-4, in units of 1e-4
PickLenTol == 1

\* the better-than test of pick_candidate_idx, tolerances kept
CandidateBetterWithin(cand, best_cand) ==
    IF cand.abs_turn + PickTurnTol < best_cand.abs_turn THEN TRUE
    ELSE IF Abs(cand.abs_turn - best_cand.abs_turn) <= PickTurnTol
    THEN IF ~cand.is_virtual /\ best_cand.is_virtual THEN TRUE
         ELSE IF cand.is_virtual = best_cand.is_virtual
         THEN IF cand.len + PickLenTol < best_cand.len THEN TRUE
              ELSE IF Abs(cand.len - best_cand.len) <= PickLenTol
              THEN IF cand.mid_dist + PickLenTol < best_cand.mid_dist THEN TRUE
                   ELSE IF Abs(cand.mid_dist - best_cand.mid_dist) <= PickLenTol
                   THEN IF cand.next < best_cand.next THEN TRUE
                        ELSE IF cand.next = best_cand.next
                        THEN (IF cand.he_idx < 0 THEN U32_MAX ELSE cand.he_idx)
                             < (IF best_cand.he_idx < 0 THEN U32_MAX ELSE best_cand.he_idx)
                        ELSE FALSE
                   ELSE FALSE
              ELSE FALSE
         ELSE FALSE
    ELSE FALSE

RECURSIVE PickLoopWithin(_, _, _, _)
PickLoopWithin(cands, indices, k, best) ==
    IF k > Len(indices) THEN best
    ELSE PickLoopWithin(cands, indices, k + 1,
                        IF CandidateBetterWithin(cands[indices[k]], cands[best])
                        THEN indices[k] ELSE best)

\* pick_candidate_idx: indices is a sequence of positions in cands; 0 is None
PickWithin(cands, indices) ==
    IF indices = << >> THEN 0 ELSE PickLoopWithin(cands, indices, 2, indices[1])

\* the number of candidates of a step
MaxPick == 3

PickCand(abs_turn, is_virtual, len, mid_dist, next, he_idx) ==
    [abs_turn |-> abs_turn, is_virtual |-> is_virtual, len |-> len,
     mid_dist |-> mid_dist, next |-> next, he_idx |-> he_idx]

\* the candidates offered: turns 1e-6 apart with lengths the other way round,
\* and candidates that differ from the first in one key only
PickCandidates ==
    { PickCand(0, FALSE, 50000, 40000, 1, 2),
      PickCand(1, FALSE, 30000, 40000, 1, 4),
      PickCand(2, FALSE, 10000, 40000, 1, 6),
      PickCand(5, FALSE, 10000, 40000, 1, 8),
      PickCand(0, TRUE, 50000, 40000, 1, -1),
      PickCand(0, FALSE, 50001, 20000, 1, 10),
      PickCand(0, FALSE, 50000, 39999, 0, 12),
      PickCand(0, FALSE, 50000, 40000, 0, 14),
      PickCand(0, FALSE, 50000, 40000, 1, 0) }

\* the candidate lists of a step
PickInputs == UNION { [1 .. n -> PickCandidates] : n \in 1 .. MaxPick }

\* the orders in which n candidates can be enumerated
PickOrders(n) == { p \in [1 .. n -> 1 .. n] : \A i, j \in 1 .. n : p[i] = p[j] => i = j }

\* the candidates of a step have been collected
InitPick ==
    /\ EditorIdle
    /\ graph_store = GraphStoreNew
    /\ \E cs \in PickInputs : last_op = [op |-> "usable", cands |-> cs]

\* the step enumerates its candidates in the given order and picks among all
\* of them
PickAmong(cands, order, usable) ==
    /\ last_op' = [op |-> "pick", cands |-> cands, order |-> order,
                   chosen |-> usable[PickWithin(usable, [k \in 1 .. Len(usable) |-> k])]]
    /\ UNCHANGED << lines, fills, history, fill_graph, node_degree, allow_node,
                    effective_degree, graph_store, trace, pre >>

PickStep(order) ==
    PickAmong(last_op.cands, order, [k \in 1 .. Len(order) |-> last_op.cands[order[k]]])

NextPick == \E order \in PickOrders(Len(last_op.cands)) : PickStep(order)

SpecPick == InitPick /\ [][NextPick]_vars

\* the six keys of a candidate, and the tolerance each is compared with
PickKeys(a) ==
    << a.abs_turn, IF a.is_virtual THEN 1 ELSE 0, a.len, a.mid_dist, a.next,
       IF a.he_idx < 0 THEN U32_MAX ELSE a.he_idx >>

PickKeyTols == << PickTurnTol, 0, PickLenTol, PickLenTol, 0, 0 >>

\* candidate a comes before candidate b in the lexicographic order of
\* absolute turn, real before virtual, length, midpoint distance, target node
\* id, half-edge index: a is smaller by more than the tolerance in one key,
\* the keys before it being equal within their tolerances
LexBefore(a, b) ==
    \E i \in 1 .. 6 :
        /\ PickKeys(a)[i] + PickKeyTols[i] < PickKeys(b)[i]
        /\ \A j \in 1 .. i - 1 : Abs(PickKeys(a)[j] - PickKeys(b)[j]) <= PickKeyTols[j]

Orient(x1, y1, x2, y2, px, py) == cross(x2 - x1, y2 - y1, px - x1, py - y1)

\* lines l and m cross at a point strictly interior to both
CrossInside(l, m) ==
    /\ Orient(m.x1, m.y1, m.x2, m.y2, l.x1, l.y1) * Orient(m.x1, m.y1, m.x2, m.y2, l.x2, l.y2) < 0
    /\ Orient(l.x1, l.y1, l.x2, l.y2, m.x1, m.y1) * Orient(l.x1, l.y1, l.x2, l.y2, m.x2, m.y2) < 0

\* the parameter along l of its crossing with m, and the crossing point
CrossParam(l, m) ==
    Frac(Orient(m.x1, m.y1, m.x2, m.y2, l.x1, l.y1),
         Orient(m.x1, m.y1, m.x2, m.y2, l.x1, l.y1) - Orient(m.x1, m.y1, m.x2, m.y2, l.x2, l.y2))

PointAt(l, t) ==
    [x |-> l.x1 + (t.n * (l.x2 - l.x1)) \div t.d, y |-> l.y1 + (t.n * (l.y2 - l.y1)) \div t.d]

\* the points that cut line l: its two ends and its interior crossings with
\* the lines ls, each with its parameter along l
CutPoints(ls, l) ==
    { [t |-> Frac(0, 1), p |-> Pt(l.x1, l.y1)], [t |-> Frac(1, 1), p |-> Pt(l.x2, l.y2)] }
    \cup { [t |-> CrossParam(l, ls[j]), p |-> PointAt(l, CrossParam(l, ls[j]))] :
              j \in {j \in 1 .. Len(ls) : CrossInside(l, ls[j])} }

\* the number of distinct interior points at which l is crossed
CrossCount(ls, l) == Cardinality({c.p : c \in CutPoints(ls, l)}) - 2

\* c and d are neighbours in parameter order among the cut points of a line
NextCut(cuts, c, d) ==
    /\ FracLess(c.t, d.t)
    /\ ~\E e \in cuts : FracLess(c.t, e.t) /\ FracLess(e.t, d.t)

\* the nodes of g at point p
NodesAt(g, p) == {n \in Ids(g.nodes) : At(g.nodes, n) = p}

\* in the arrangement g of the lines ls every crossing point has one node,
\* every line is a chain of segments through its cut points in parameter
\* order, and there is no other segment
SplitAtCrossings(ls, g) ==
    /\ \A i \in 1 .. Len(ls) : \A c \in CutPoints(ls, ls[i]) :
           Cardinality(NodesAt(g, c.p)) = 1
    /\ \A i \in 1 .. Len(ls) : \A c, d \in CutPoints(ls, ls[i]) :
           NextCut(CutPoints(ls, ls[i]), c, d)
           => \E k \in 1 .. Len(g.segments) :
                  /\ g.segments[k].a \in NodesAt(g, c.p)
                  /\ g.segments[k].b \in NodesAt(g, d.p)
    /\ Len(g.segments)
       = Cardinality({ << i, c >> \in (1 .. Len(ls)) \X (UNION { CutPoints(ls, ls[i]) : i \in 1 .. Len(ls) }) :
                          c \in CutPoints(ls, ls[i]) })
         - Len(ls)

\* C27: two lines that cross at a point strictly interior to both get one
\* shared node that splits both, and a line crossed at k distinct interior
\* points becomes exactly k + 1 segments chained in parameter order (in the
\* arrangement build_fill_graph builds from a non-empty line list)
C27_CrossingsSplitLines ==
    lines # << >> => SplitAtCrossings(lines, fill_graph)

\* fill_debug_at has rebuilt the arrangement of the square of side 18 with a
\* diagonal and a vertical line: the vertical line is crossed at three
\* points, by two sides and by the diagonal, and the arrangement has twelve
\* segments, four of them on that line
C27_Witness ==
    /\ last_op.op = "fill_debug_at"
    /\ Len(lines) = 6
    /\ lines[6] = Line(9, -2, 9, 20)
    /\ CrossCount(lines, lines[6]) = 3
    /\ CrossCount(lines, lines[5]) = 1
    /\ Len(fill_graph.segments) = 12

\* point p lies on line l, its ends included
OnLine(l, p) ==
    /\ Orient(l.x1, l.y1, l.x2, l.y2, p.x, p.y) = 0
    /\ (p.x - l.x1) * (p.x - l.x2) <= 0
    /\ (p.y - l.y1) * (p.y - l.y2) <= 0

\* the ends of line l
EndsOf(l) == { Pt(l.x1, l.y1), Pt(l.x2, l.y2) }

\* the chain of line l in g passes through node n: a segment on l ends there
LineThroughNode(g, l, n) ==
    \E k \in 1 .. Len(g.segments) :
        /\ n \in { g.segments[k].a, g.segments[k].b }
        /\ OnLine(l, At(g.nodes, g.segments[k].a))
        /\ OnLine(l, At(g.nodes, g.segments[k].b))

\* in the arrangement g of the lines ls, an end of one line that lies on
\* another line is one node, and both lines pass through it
TouchingEndsShared(ls, g) ==
    \A i, j \in 1 .. Len(ls) : \A p \in EndsOf(ls[i]) :
        i # j /\ OnLine(ls[j], p)
        => /\ Cardinality(NodesAt(g, p)) = 1
           /\ \A n \in NodesAt(g, p) : LineThroughNode(g, ls[i], n) /\ LineThroughNode(g, ls[j], n)

\* C28: endpoint touching is handled by the endpoint registration: whenever
\* an end of one line lies on another line, at an end of that line or in its
\* interior, the two lines share an arrangement node at that point, and no
\* second node is created for it (in the arrangement build_fill_graph builds
\* from a non-empty line list)
C28_TouchingEndsShareNode ==
    lines # << >> => TouchingEndsShared(lines, fill_graph)

\* the direction of half-edge h of g, from its from-node to its to-node
HalfEdgeDir(g, h) ==
    << At(g.nodes, At(g.half_edges, h).to).x - At(g.nodes, At(g.half_edges, h).from).x,
       At(g.nodes, At(g.half_edges, h).to).y - At(g.nodes, At(g.half_edges, h).from).y >>

\* 0 for the directions of angle in [0, 180), 1 for those in [180, 360)
LowerHalf(d) == IF d[2] > 0 \/ (d[2] = 0 /\ d[1] > 0) THEN 0 ELSE 1

\* the angle of direction d, counter-clockwise from the +x axis, is smaller
\* than that of direction e
AngleBefore(d, e) ==
    \/ LowerHalf(d) < LowerHalf(e)
    \/ LowerHalf(d) = LowerHalf(e) /\ cross(d[1], d[2], e[1], e[2]) > 0

\* the angle proxy of a direction lies in [0, 4)
ProxyInRange(d) ==
    /\ compute_angle_proxy(d[1], d[2]).n >= 0
    /\ compute_angle_proxy(d[1], d[2]).n < 4 * compute_angle_proxy(d[1], d[2]).d

\* C29: for every node the outgoing half-edge list is in ascending order of
\* the true direction angle of its half-edges, counter-clockwise from the +x
\* axis, and the angle proxy of the sort lies in [0, 4) for every non-zero
\* direction
C29_OutgoingSortedByAngle ==
    /\ \A n \in 1 .. Len(fill_graph.outgoing) :
           \A k \in 1 .. Len(fill_graph.outgoing[n]) - 1 :
               ~AngleBefore(HalfEdgeDir(fill_graph, fill_graph.outgoing[n][k + 1]),
                            HalfEdgeDir(fill_graph, fill_graph.outgoing[n][k]))
    /\ \A h \in Ids(fill_graph.half_edges) :
           HalfEdgeDir(fill_graph, h) # << 0, 0 >> => ProxyInRange(HalfEdgeDir(fill_graph, h))

\* ---------------------------------------------------------------------
\* Integrity of the fill graph
\* ---------------------------------------------------------------------

ValidNode(g, n) == n \in Ids(g.nodes)

SegmentsValid(g) ==
    \A s \in Ids(g.segments) :
        /\ ValidNode(g, At(g.segments, s).a)
        /\ ValidNode(g, At(g.segments, s).b)
        /\ At(g.segments, s).a # At(g.segments, s).b

HalfEdgesValid(g) ==
    \A h \in Ids(g.half_edges) :
        /\ ValidNode(g, At(g.half_edges, h).from)
        /\ ValidNode(g, At(g.half_edges, h).to)
        /\ At(g.half_edges, h).seg \in Ids(g.segments)

HalfEdgesPaired(g) ==
    /\ Len(g.half_edges) = 2 * Len(g.segments)
    /\ \A k \in Ids(g.segments) :
           /\ At(g.half_edges, 2 * k) =
                  [from |-> At(g.segments, k).a, to |-> At(g.segments, k).b, seg |-> k]
           /\ At(g.half_edges, 2 * k + 1) =
                  [from |-> At(g.segments, k).b, to |-> At(g.segments, k).a, seg |-> k]

\* the places (node, position) of the outgoing lists that hold half-edge h
OutgoingPlaces(g, h) ==
    { p \in { << n, k >> : n \in 1 .. Len(g.outgoing), k \in 1 .. 2 * Len(g.segments) } :
          p[2] <= Len(g.outgoing[p[1]]) /\ g.outgoing[p[1]][p[2]] = h }

OutgoingExact(g) ==
    /\ Len(g.outgoing) = Len(g.nodes)
    /\ \A n \in 1 .. Len(g.outgoing) : \A k \in 1 .. Len(g.outgoing[n]) :
           g.outgoing[n][k] \in Ids(g.half_edges)
    /\ \A h \in Ids(g.half_edges) :
           \E k \in 1 .. Len(g.outgoing[At(g.half_edges, h).from + 1]) :
               OutgoingPlaces(g, h) = { << At(g.half_edges, h).from + 1, k >> }

\* C30: in every reachable state the fill graph passes the integrity
\* assertions: segment and half-edge endpoints are valid node indices, no
\* segment joins a node to itself, half-edges 2k and 2k+1 are segment k in
\* opposite directions, and every half-edge index appears exactly once, in
\* the outgoing list of its from-node.
C30_FillGraphIntegrity ==
    /\ SegmentsValid(fill_graph)
    /\ HalfEdgesValid(fill_graph)
    /\ HalfEdgesPaired(fill_graph)
    /\ OutgoingExact(fill_graph)

\* a rebuilt graph with crossings: nodes of degree above two, many half-edges
C30_Witness ==
    /\ Len(fill_graph.segments) >= 4
    /\ Len(fill_graph.half_edges) = 2 * Len(fill_graph.segments)
    /\ \E n \in 1 .. Len(fill_graph.outgoing) : Len(fill_graph.outgoing[n]) >= 3

\* ---------------------------------------------------------------------
\* Properties of the DSU inside the GraphStore
\* ---------------------------------------------------------------------

\* the nodes that resolve to root r
DsuSetOf(d, r) == { n \in Ids(d.parent) : DsuRoot(d.parent, n) = r }

RootsMatchPaths(gs) ==
    \A a \in Ids(gs.nodes) : \A b \in Ids(gs.nodes) :
        (DsuRoot(gs.dsu.parent, a) = DsuRoot(gs.dsu.parent, b))
            <=> (b \in ComponentOf(gs, {a}, Len(gs.nodes)))

FindKeepsRoots(d) ==
    \A x \in Ids(d.parent) :
        /\ DsuFindRoot(d, x) = DsuRoot(d.parent, x)
        /\ \A n \in Ids(d.parent) :
               DsuRoot(DsuFind(d, x).parent, n) = DsuRoot(d.parent, n)
        /\ DsuFind(d, x).size = d.size

SizeCountsSet(d) ==
    \A r \in Ids(d.parent) :
        At(d.parent, r) = r => At(d.size, r) = Cardinality(DsuSetOf(d, r))

\* C31: after any sequence of add_segment calls two tracker nodes have the
\* same DSU root iff a path of added segments joins them; find with its path
\* compression resolves every node to the root it had before; size[root] is
\* the number of nodes of the root's set
C31_DsuTracksComponents ==
    /\ Len(graph_store.dsu.parent) = Len(graph_store.nodes)
    /\ RootsMatchPaths(graph_store)
    /\ FindKeepsRoots(graph_store.dsu)
    /\ SizeCountsSet(graph_store.dsu)

\* a store in which the merge of two two-node sets left a node two links
\* below its root, so that find on it rewrites a parent pointer
C31_Witness ==
    /\ last_op.op = "add_segment"
    /\ \E x \in Ids(graph_store.nodes) :
           /\ At(graph_store.dsu.parent, x) # DsuRoot(graph_store.dsu.parent, x)
           /\ DsuFind(graph_store.dsu, x).parent # graph_store.dsu.parent
           /\ At(graph_store.dsu.size, DsuRoot(graph_store.dsu.parent, x)) >= 4

\* ---------------------------------------------------------------------
\* The trimmer and the pruner on one arrangement
\* ---------------------------------------------------------------------

\* the nodes the leaf stripping of build_fill_graph leaves allowed
AllowedNodes(g, allow) == { n \in Ids(g.nodes) : At(allow, n) }

\* the segments cleanup_overhangs keeps, and the segments between two
\* allowed nodes
KeptSegments(g, deleted) == { s \in Ids(g.segments) : ~At(deleted, s) }

AllowedSegments(g, allow) ==
    { s \in Ids(g.segments) : At(allow, At(g.segments, s).a) /\ At(allow, At(g.segments, s).b) }

TrimMatchesPrune(g, deleted, allow, old_lines, new_lines) ==
    /\ KeptSegments(g, deleted) = AllowedSegments(g, allow)
    /\ new_lines = IF AllowedSegments(g, allow) = Ids(g.segments) THEN old_lines
                   ELSE SegmentsWithin(g, AllowedNodes(g, allow))

TrimMatchesPruneOn(g, old_lines, new_lines) ==
    TrimMatchesPrune(g, OverhangDeleted(g), LeafStrip(g).allow, old_lines, new_lines)

\* C32: the segments cleanup_overhangs keeps are exactly the arrangement
\* segments whose two end nodes the leaf stripping of build_fill_graph leaves
\* allowed, and they are the lines it stores when it removes anything
C32_TrimmerAgreesWithPruner ==
    [][last_op'.op = "cleanup_overhangs" /\ lines # << >>
       => TrimMatchesPruneOn(BuildArrangement(lines), lines, lines')]_vars

\* a trim that removed some segments and kept others, on a drawing with a
\* crossing
C32_Witness ==
    /\ last_op.op = "cleanup_overhangs"
    /\ pre # NoPre
    /\ lines # << >>
    /\ Len(lines) # Len(pre.lines)
    /\ \E n \in 1 .. Len(node_degree) : node_degree[n] >= 3
    /\ \A n \in 1 .. Len(allow_node) : allow_node[n]

\* ---------------------------------------------------------------------
\* Real and virtual transitions of the walk
\* ---------------------------------------------------------------------

\* the step from tr to tr2 appended a virtual transition to visited_edges
TookVirtual(tr, tr2) ==
    /\ Len(tr2.visited_edges) = Len(tr.visited_edges) + 1
    /\ tr2.visited_edges[Len(tr2.visited_edges)].is_virtual

\* the candidates of a step are all real or all virtual, virtual ones are
\* there only when the current node has no admissible real candidate, and
\* so is a virtual transition the step takes
VirtualOnlyWithoutReal(e, tr, usable, tr2) ==
    /\ \A j \in 1 .. Len(usable) : \A k \in 1 .. Len(usable) :
           usable[j].is_virtual = usable[k].is_virtual
    /\ (\E k \in 1 .. Len(usable) : usable[k].is_virtual) => NoRealCandidate(e, tr)
    /\ TookVirtual(tr, tr2) => NoRealCandidate(e, tr)

\* C33: a virtual transition is taken only at a step where the current node
\* has no admissible real candidate; real and virtual candidates are never
\* in one pool, so the real-before-virtual test never decides a choice
C33_VirtualOnlyWithoutReal ==
    [][/\ trace.status = "running"
       /\ trace.step_idx < trace.max_steps
       => VirtualOnlyWithoutReal(TraceEnv, trace, UsableCandidates(TraceEnv, trace), trace')]_vars

\* a walk that has taken a real transition and then a virtual one
C33_Witness ==
    /\ trace.status \in {"running", "closed"}
    /\ trace.step_idx >= 2
    /\ \E k \in 2 .. Len(trace.visited_edges) - 1 :
           /\ ~trace.visited_edges[k].is_virtual
           /\ trace.visited_edges[k + 1].is_virtual

\* ---------------------------------------------------------------------
\* The side rules of the dual trace
\* ---------------------------------------------------------------------

\* cross(to - from, origin - from) on the nodes of g
SeedCross(g, from, to, o) ==
    cross(At(g.nodes, to).x - At(g.nodes, from).x, At(g.nodes, to).y - At(g.nodes, from).y,
          o[1] - At(g.nodes, from).x, o[2] - At(g.nodes, from).y)

RuleOfCross(c) == IF c > 0 THEN "KeepLeft" ELSE "KeepRight"

\* the two traces rs of a fill at o from seed segment seg ran with the rules
\* the cross products give
SideRulesFollowCross(g, seg, o, rs) ==
    /\ rs[1].start_from = seg.a /\ rs[1].start_to = seg.b
    /\ rs[2].start_from = seg.b /\ rs[2].start_to = seg.a
    /\ rs[1].side_rule = RuleOfCross(SeedCross(g, seg.a, seg.b, o))
    /\ rs[2].side_rule = RuleOfCross(SeedCross(g, seg.b, seg.a, o))
    /\ SeedCross(g, seg.a, seg.b, o) # 0 => rs[1].side_rule # rs[2].side_rule
    /\ SeedCross(g, seg.a, seg.b, o) = 0
           => rs[1].side_rule = "KeepRight" /\ rs[2].side_rule = "KeepRight"

\* the fill just run at o reached its dual trace
FillTraced(g, o) == g.segments # << >> /\ SeedCandidates(g) # {}

\* C34: fill_debug_at runs direction a->b with KeepLeft iff
\* cross(b - a, origin - a) > 0 and with KeepRight otherwise, and likewise
\* b->a; the two rules are opposite when the origin is off the line of the
\* seed segment and both KeepRight when it is on it
C34_SideRulesFromCross ==
    last_op.op = "fill_debug_at" /\ FillTraced(fill_graph, << last_op.ox, last_op.oy >>)
    => SideRulesFollowCross(fill_graph,
                            At(fill_graph.segments, BestSeed(fill_graph, last_op.ox, last_op.oy)),
                            << last_op.ox, last_op.oy >>,
                            DualTrace(TraceEnv, last_op.ox, last_op.oy))

\* a fill whose origin lies on the line of its seed segment: both traces ran
\* with KeepRight
C34_Witness ==
    /\ last_op.op = "fill_debug_at"
    /\ FillTraced(fill_graph, << last_op.ox, last_op.oy >>)
    /\ \E seg \in {At(fill_graph.segments, BestSeed(fill_graph, last_op.ox, last_op.oy))} :
           SeedCross(fill_graph, seg.a, seg.b, << last_op.ox, last_op.oy >>) = 0
    /\ \A k \in 1 .. 2 : DualTrace(TraceEnv, last_op.ox, last_op.oy)[k].side_rule = "KeepRight"

\* ---------------------------------------------------------------------
\* The closure and cycle checks of the walk
\* ---------------------------------------------------------------------

\* the key of the transition the step picks among usable
ChosenKey(tr, chosen) == EdgeKey(tr.cur_node, chosen.next, chosen.seg_id, chosen.is_virtual)

\* the transition chosen is visited only if it is the closing seed
\* transition, and the seed transition is chosen only after three distinct
\* nodes were visited
ChosenIsFreshOrCloses(tr, key, tr2) ==
    /\ edge_visited(tr.visited_edges, key) => key = tr.start_edge
    /\ key = tr.start_edge
           => /\ tr.step_idx >= 1
              /\ Cardinality(UniqueNodes(tr)) >= 3
              /\ tr2.status = "closed"

CycleChecksNeverFire(tr, usable, tr2) ==
    /\ tr2.status # "PrematureCycle"
    /\ tr2.status = "DeadEnd" => usable = << >>
    /\ usable # << >>
           => ChosenIsFreshOrCloses(tr,
                  ChosenKey(tr, usable[pick_candidate_idx(usable, PoolIndices(usable))]), tr2)

\* C35: trace_face_side never returns PrematureCycle and never rejects a
\* closure for fewer than 3 distinct nodes: a chosen transition is visited
\* only if it is the closing seed transition, and when the seed transition is
\* chosen at least 3 distinct nodes have been visited
C35_CycleChecksNeverFire ==
    [][/\ trace.status = "running"
       /\ trace.step_idx < trace.max_steps
       => CycleChecksNeverFire(trace, UsableCandidates(TraceEnv, trace), trace')]_vars

\* a walk that closed on its seed transition after it had left a transition
\* out because it was visited
C35_Witness ==
    /\ trace.status = "closed"
    /\ Cardinality(UniqueNodes(trace)) >= 3
    /\ \E k \in 2 .. Len(trace.visited_edges) :
           \E h \in Ids(fill_graph.half_edges) :
               /\ At(fill_graph.half_edges, h).from = trace.visited_edges[k].to
               /\ At(fill_graph.half_edges, h).to # trace.visited_edges[k].from
               /\ \E j \in 2 .. k :
                      trace.visited_edges[j]
                          = EdgeKey(At(fill_graph.half_edges, h).from,
                                    At(fill_graph.half_edges, h).to,
                                    At(fill_graph.half_edges, h).seg, FALSE)

\* ---------------------------------------------------------------------
\* The nodes of a closed ring
\* ---------------------------------------------------------------------

InTwoCore(e, n) == n < Len(e.allow) /\ At(e.allow, n) /\ n < Len(e.eff) /\ At(e.eff, n) >= 2

\* every node of the walk, the two ends of the seed edge included, is in the
\* 2-core, and every point of the ring is the point of such a node
RingInTwoCore(e, tr) ==
    /\ InTwoCore(e, tr.start_from) /\ InTwoCore(e, tr.start_to)
    /\ \A n \in UniqueNodes(tr) : InTwoCore(e, n)
    /\ \A k \in 1 .. Len(tr.points) :
           \E n \in UniqueNodes(tr) :
               tr.points[k] = << At(e.g.nodes, n).x, At(e.g.nodes, n).y >>

\* C36: every closed TraceResult passes only through 2-core nodes: each of
\* its points, the two ends of the seed edge included, is a node with
\* allow_node true and effective degree >= 2
C36_ClosedRingInTwoCore ==
    trace.status = "closed" => RingInTwoCore(TraceEnv, trace)

\* a ring closed on a drawing that has pruned nodes next to it
C36_Witness ==
    /\ trace.status = "closed"
    /\ Len(trace.points) >= 4
    /\ \E n \in 1 .. Len(allow_node) : ~allow_node[n]

\* ---------------------------------------------------------------------
\* Undo down to the empty history
\* ---------------------------------------------------------------------

\* an undo step: on an empty history it changes neither list, otherwise it
\* takes exactly one entry off the history
UndoStepsDown(h, ls, fs, h2, ls2, fs2) ==
    IF h = << >>
    THEN h2 = << >> /\ ls2 = ls /\ fs2 = fs
    ELSE h2 = SubSeq(h, 1, Len(h) - 1)

\* C37: from the empty editor, after any sequence of add_line, add_frame,
\* clear, cleanup_overhangs, fill and undo operations, undo called until the
\* history is empty leaves the line list and the fill list empty (every undo
\* takes one entry off the history, and no state with an empty history holds
\* a line or a fill); undo on an empty history changes neither list
C37_UndoAllEmptiesLists ==
    /\ [](history = << >> => lines = << >> /\ fills = << >>)
    /\ [][last_op'.op = "undo"
          => UndoStepsDown(history, lines, fills, history', lines', fills')]_vars

\* two undo calls in a row have brought the editor back to the empty history
C37_Witness ==
    /\ last_op.op = "undo"
    /\ last_op.undone = "undo"
    /\ history = << >>
    /\ lines = << >>
    /\ fills = << >>

\* ---------------------------------------------------------------------
\* Trimming a drawing that has nothing to trim
\* ---------------------------------------------------------------------

\* the line list ls is empty or its arrangement has no node of degree <= 1
NothingToTrim(ls) == ls = << >> \/ NoLeafNode(BuildArrangement(ls))

\* the undo from history h to h2 took the top entry off and brought back the
\* lists of the snapshot before
RevertsTo(before, h, h2, ls2, fs2) ==
    /\ h # << >>
    /\ h2 = SubSeq(h, 1, Len(h) - 1)
    /\ ls2 = before.lines
    /\ fs2 = before.fills

\* C38: cleanup_overhangs on a line list that is empty or whose arrangement
\* has no node of degree <= 1 changes neither the line list nor the undo
\* history, so the undo that follows it reverts the mutation that came before
\* the cleanup
C38_IdleCleanupKeepsHistory ==
    /\ [][last_op'.op = "cleanup_overhangs" /\ NothingToTrim(lines)
          => lines' = lines /\ history' = history /\ fills' = fills /\ pre' = NoPre]_vars
    /\ [][/\ last_op.op = "cleanup_overhangs" /\ pre = NoPre /\ last_op.of # NoPre
          /\ last_op'.op = "undo"
          => RevertsTo(last_op.of, history, history', lines', fills')]_vars

\* the undo that followed a cleanup with nothing to trim has brought the
\* drawing back to the four lines of a frame
C38_Witness ==
    /\ last_op.op = "undo"
    /\ last_op.undone = "cleanup_overhangs"
    /\ last_op.of = NoPre
    /\ Len(lines) = 4
    /\ Len(history) = 1
    /\ NothingToTrim(lines)

\* ---------------------------------------------------------------------
\* The length of the stored lines
\* ---------------------------------------------------------------------

LineLengthSq(l) == distance_sq(l.x1, l.y1, l.x2, l.y2)

\* C39: in every reachable state every line of the stored line list has
\* squared length >= 1, whichever of add_line, add_frame, cleanup_overhangs
\* and undo produced the list
C39_StoredLinesHaveLength ==
    \A k \in 1 .. Len(lines) : LineLengthSq(lines[k]) >= 1

\* ---------------------------------------------------------------------
\* The parity of the tracked odd counts
\* ---------------------------------------------------------------------

\* the odd-degree nodes of the set of root r
OddNodesOf(gs, r) ==
    { n \in DsuSetOf(gs.dsu, r) : At(gs.nodes, n).degree % 2 = 1 }

\* C40: in every reachable GraphStore state the odd count tracked at every
\* component root is even, and no component has exactly one odd-degree node
C40_OddCountIsEven ==
    \A r \in Ids(graph_store.nodes) :
        At(graph_store.dsu.parent, r) = r
            => /\ At(graph_store.dsu.odd_count, r) % 2 = 0
               /\ Cardinality(OddNodesOf(graph_store, r)) # 1

\* a star of three segments: its four nodes all have odd degree
C40_Witness ==
    /\ last_op.op = "add_segment"
    /\ \E r \in Ids(graph_store.nodes) :
           /\ At(graph_store.dsu.parent, r) = r
           /\ At(graph_store.dsu.odd_count, r) = 4
           /\ Cardinality(OddNodesOf(graph_store, r)) = 4

====
